---- MODULE Spec2Model ----
(***************************************************************************)
(* running-coach: the time-windowed file cache (app/services/cache.py),    *)
(* the personal-record derivation engine                                   *)
(* (app/services/personal_records.py), the user settings                   *)
(* (app/services/user_settings.py), the auth router (app/routers/auth.py)  *)
(* and the endpoints of app/main.py, as state machines.                    *)
(***************************************************************************)
EXTENDS Integers, Sequences, FiniteSets, TLC

VARIABLES
    files,                 \* the cache directory: key -> content of <key>.json
    now,                   \* datetime.now(), in ticks
    pending,               \* per key: what set last wrote, until another operation on the key
    last,                  \* the latest step of the cache: operation, arguments, outcome
    feed,                  \* the pool the activity list is drawn from
    fetched_activities,    \* the list handed to calculate_personal_records
    result,                \* the outcome of that call
    fetched_best_efforts,  \* the groups handed to calculate_personal_records_from_best_efforts
    effort_result,         \* the outcome of that call
    latest,                \* the latest call on the shared service instance
    seen,                  \* an earlier call and its outcome, kept for comparison
    zone_max_hr,           \* the max_hr handed to _calculate_zones
    zone_result,           \* the zones it returned
    settings_files,        \* the data directory: user_id -> content of user_<id>.json
    profile_last,          \* the latest call on the settings service and what it returned
    by_hand,               \* user_id -> the zones of an update_hr_zones no update_hr_params followed
    updates,               \* caller -> the update it is in, with the settings it read
    gets,                  \* caller -> the cache get it is in or has made
    state_store,           \* the keys of auth.state_store
    issued,                \* every state token login has generated
    consumed,              \* every state token a callback has verified
    auth_last,             \* the latest request to the auth router and its response
    fetch,                 \* get_activities in its pagination loop: its locals and what it returned
    format_seconds,        \* the seconds handed to _format_time
    time_formatted,        \* the string it returned
    handler                \* an endpoint of main.py in flight: its request, locals and response

vars == <<files, now, pending, last, feed, fetched_activities, result,
          fetched_best_efforts, effort_result, latest, seen,
          zone_max_hr, zone_result, settings_files, profile_last, by_hand,
          updates, gets, state_store, issued, consumed, auth_last, fetch,
          format_seconds, time_formatted, handler>>

(***************************************************************************)
(* Binary64 arithmetic.                                                    *)
(*                                                                         *)
(* Python's float is IEEE-754 binary64.  A non-negative finite double is   *)
(* held exactly as a little-endian tuple of limbs in base 2^12, in units   *)
(* of 2^-72: limb i weighs 2^(12*(i-1) - 72).  Every double the model      *)
(* meets is 0 or lies in [2^-19, 2^36), so its 53-bit significand fits.    *)
(* An operation is the exact operation followed by RoundDouble             *)
(* (round-to-nearest, ties-to-even), which is what the hardware does.      *)
(***************************************************************************)
LimbBits == 12
Base == 2^LimbBits
FracLimbs == 6
NumLimbs == 9
SignificandBits == 53

Zero(n) == [i \in 1..n |-> 0]

\* 2^(number of bits of v) > v >= 2^(number of bits of v - 1), for a limb v.
Bits(v) == CHOOSE b \in 0..LimbBits : v < 2^b /\ (b = 0 \/ v >= 2^(b - 1))

\* x < y for two limb tuples of equal length.
BigLess(x, y) ==
    \E i \in 1..Len(x) : x[i] < y[i] /\ \A j \in (i + 1)..Len(x) : x[j] = y[j]

BigLeq(x, y) == ~BigLess(y, x)

\* The function f over 1..n as a tuple.
AsTuple(f, n) == SubSeq(f, 1, n)

\* The carry into limb i of x + y: some lower limb generates one and every
\* limb between propagates it.
CarryIn(x, y, i) ==
    \E j \in 1..(i - 1) :
        /\ x[j] + y[j] >= Base
        /\ \A m \in (j + 1)..(i - 1) : x[m] + y[m] = Base - 1

\* x + y for a sum that fits the length of x.
BigAdd(x, y) ==
    AsTuple([i \in 1..Len(x) |->
              (x[i] + y[i] + (IF CarryIn(x, y, i) THEN 1 ELSE 0)) % Base], Len(x))

\* The borrow from limb i of x - y.
BorrowIn(x, y, i) ==
    \E j \in 1..(i - 1) :
        /\ x[j] < y[j]
        /\ \A m \in (j + 1)..(i - 1) : x[m] = y[m]

\* x - y for x >= y.
BigSub(x, y) ==
    AsTuple([i \in 1..Len(x) |->
              (x[i] - y[i] - (IF BorrowIn(x, y, i) THEN 1 ELSE 0) + Base) % Base], Len(x))

BigAbsDiff(x, y) == IF BigLess(x, y) THEN BigSub(y, x) ELSE BigSub(x, y)

\* k * x for a natural k <= Base and a product that fits the length of x:
\* the low halves of the limb products plus their high halves, one limb up.
BigScale(x, k) ==
    BigAdd(AsTuple([i \in 1..Len(x) |-> (x[i] * k) % Base], Len(x)),
           AsTuple([i \in 1..Len(x) |-> IF i = 1 THEN 0 ELSE (x[i - 1] * k) \div Base],
                 Len(x)))

\* The sum of x[i] * y[k + 1 - i] over i in lo..hi: part of column k of the
\* schoolbook product.
RECURSIVE ColumnSum(_, _, _, _, _)
ColumnSum(x, y, k, lo, hi) ==
    IF lo = hi
    THEN IF k + 1 - lo >= 1 /\ k + 1 - lo <= Len(y) THEN x[lo] * y[k + 1 - lo] ELSE 0
    ELSE ColumnSum(x, y, k, lo, (lo + hi) \div 2)
         + ColumnSum(x, y, k, (lo + hi) \div 2 + 1, hi)

\* The exact product, of Len(x) + Len(y) limbs, in units of 2^-144: every
\* column is below Base^3, and its three digits go to limbs k, k + 1, k + 2.
BigMul(x, y) ==
    LET n    == Len(x) + Len(y)
        cols == AsTuple([k \in 1..n |-> ColumnSum(x, y, k, 1, Len(x))], n)
    IN  BigAdd(BigAdd(AsTuple([k \in 1..n |-> cols[k] % Base], n),
                      AsTuple([k \in 1..n |->
                                IF k < 2 THEN 0 ELSE (cols[k - 1] \div Base) % Base], n)),
               AsTuple([k \in 1..n |->
                         IF k < 3 THEN 0 ELSE cols[k - 2] \div (Base * Base)], n))

\* The index of the most significant non-zero limb; 0 for zero.
TopLimb(x) ==
    IF \A i \in 1..Len(x) : x[i] = 0 THEN 0
    ELSE CHOOSE i \in 1..Len(x) : x[i] # 0 /\ \A j \in (i + 1)..Len(x) : x[j] = 0

\* The position of the leading one bit, counted from 1; 0 for zero.
BitLen(x) ==
    IF TopLimb(x) = 0 THEN 0 ELSE (TopLimb(x) - 1) * LimbBits + Bits(x[TopLimb(x)])

\* 2^n as a tuple of len limbs.
BigPow2(n, len) ==
    SubSeq([i \in 1..len |-> IF i = (n \div LimbBits) + 1 THEN 2^(n % LimbBits) ELSE 0],
           1, len)

\* x mod 2^n.
BigLow(x, n) ==
    SubSeq([i \in 1..Len(x) |->
               IF i <= n \div LimbBits THEN x[i]
               ELSE IF i = (n \div LimbBits) + 1 THEN x[i] % 2^(n % LimbBits)
               ELSE 0],
           1, Len(x))

BigBit(x, n) == (x[(n \div LimbBits) + 1] \div 2^(n % LimbBits)) % 2

\* x with its n low bits rounded away, to nearest, ties to even.
RoundLow(x, n) ==
    IF BigLess(BigPow2(n - 1, Len(x)), BigLow(x, n))
       \/ (BigLow(x, n) = BigPow2(n - 1, Len(x)) /\ BigBit(x, n) = 1)
    THEN BigAdd(BigSub(x, BigLow(x, n)), BigPow2(n, Len(x)))
    ELSE BigSub(x, BigLow(x, n))

\* Round to 53 significant bits, to nearest, ties to even.
RoundDouble(x) ==
    IF BitLen(x) <= SignificandBits THEN x
    ELSE RoundLow(x, BitLen(x) - SignificandBits)

\* float * float: the exact product rounded, brought back to units of 2^-72
\* (the dropped limbs of a rounded product >= 2^-19 are zero).
FMul(x, y) == SubSeq(RoundDouble(BigMul(x, y)), FracLimbs + 1, FracLimbs + NumLimbs)

\* abs(x - y) on floats: rounding is symmetric, so abs commutes with it.
FAbsSub(x, y) == RoundDouble(BigAbsDiff(x, y))

\* An integer number of half units (metres) as a double: 2 * 21097.5 = 42195.
FromHalves(h) ==
    Zero(FracLimbs - 1)
    \o <<(h % 2) * (Base \div 2),
         (h \div 2) % Base,
         ((h \div 2) \div Base) % Base,
         (h \div 2) \div (Base * Base)>>

FromInt(n) == FromHalves(2 * n)

\* The quotient digit floor(rem / d) < Base of long division by a divisor d
\* whose top limb top is at least Base / 2: the estimate from the two leading
\* limbs of rem exceeds it by at most 2 (Knuth, TAOCP 4.3.1, Theorem B).
QuotientDigit(rem, d, top) ==
    LET qhat == IF (rem[top + 1] * Base + rem[top]) \div d[top] < Base
                THEN (rem[top + 1] * Base + rem[top]) \div d[top]
                ELSE Base - 1
    IN  IF BigLeq(BigScale(d, qhat), rem) THEN qhat
        ELSE IF BigLeq(BigScale(d, qhat - 1), rem) THEN qhat - 1
        ELSE qhat - 2

\* One step of long division by d: the next limb of the numerator is brought
\* down into the remainder of qr = <<quotient limbs so far, remainder < d>>.
DivStep(d, top, limb, qr) ==
    LET cur == <<limb>> \o SubSeq(qr[2], 1, Len(qr[2]) - 1)
        q   == QuotientDigit(cur, d, top)
    IN  <<<<q>> \o qr[1], BigSub(cur, BigScale(d, q))>>

\* Long division of the limbs num[lo..hi], most significant first, by d,
\* continuing from qr: the upper half of the limbs, then the lower half.
RECURSIVE LongDiv(_, _, _, _, _, _)
LongDiv(num, d, top, hi, lo, qr) ==
    IF hi = lo THEN DivStep(d, top, num[hi], qr)
    ELSE LET upper == LongDiv(num, d, top, hi, (hi + lo) \div 2 + 1, qr)
         IN  IF BigLess(upper[2], d)
             THEN LongDiv(num, d, top, (hi + lo) \div 2, lo, upper)
             ELSE upper

\* The quotient x / y, y > 0, to one guard limb (units of 2^-84), its lowest
\* bit made sticky for a non-zero remainder.  Both operands are first scaled
\* by 2^s so that the divisor's top limb is at least Base / 2.  The leading
\* top - 1 limbs of the numerator are below the divisor: they start as the
\* remainder and their quotient limbs are zero.
StickyQuotient(x, y) ==
    LET top == TopLimb(y)
        s   == 2^(LimbBits - Bits(y[top]))
        num == Zero(FracLimbs + 1) \o BigScale(x \o <<0>>, s)
        d   == BigScale(y \o <<0>>, s)
        qr  == LongDiv(num, d, top, Len(num) - (top - 1), 1,
                       <<<<>>, SubSeq(num, Len(num) - (top - 1) + 1, Len(num))
                               \o Zero(Len(d) - (top - 1))>>)
    IN  IF qr[2] # Zero(Len(d)) /\ qr[1][1] % 2 = 0
        THEN [qr[1] EXCEPT ![1] = @ + 1] \o Zero(top - 1)
        ELSE qr[1] \o Zero(top - 1)

\* float / float for y > 0: the sticky quotient rounded, the guard dropped.
FDiv(x, y) == SubSeq(RoundDouble(StickyQuotient(x, y)), 2, NumLimbs + 1)

\* The integer part of a double below 2^31.
IntPart(x) ==
    x[FracLimbs + 1] + Base * x[FracLimbs + 2] + Base * Base * x[FracLimbs + 3]

(***************************************************************************)
(* Python values.  A dict is a record over all the keys the code reads;    *)
(* a key the dict does not hold maps to Missing, a key holding JSON null   *)
(* (Python None) maps to None, any other value v to Val(v).  A string the  *)
(* code takes apart or builds is a tuple of characters (tokens).           *)
(***************************************************************************)
Missing == [tag |-> "missing"]
None == [tag |-> "None"]
Val(v) == [tag |-> "value", v |-> v]

\* The value of a result that no call has produced yet.
NotCalled == [tag |-> "not called"]

\* dict.get(key, default)
DictGet(d, key, default) == IF d[key] = Missing THEN default ELSE d[key]

\* A raised exception / a normal return.
Raise(e) == [raised |-> TRUE, error |-> e]
Return(v) == [raised |-> FALSE, value |-> v]

\* bool(v) of an optional string value.
Truthy(x) == x # None /\ x # Missing /\ x.v # <<>>

\* s.split('T')[0]
RECURSIVE SplitT(_)
SplitT(s) ==
    IF s = <<>> \/ Head(s) = "T" THEN <<>> ELSE <<Head(s)>> \o SplitT(Tail(s))

Digit(n) == <<"0", "1", "2", "3", "4", "5", "6", "7", "8", "9">>[n + 1]

\* f"{n}"
RECURSIVE Dec(_)
Dec(n) == IF n < 10 THEN <<Digit(n)>> ELSE Dec(n \div 10) \o <<Digit(n % 10)>>

\* f"{n:02d}"
Pad2(n) == IF n < 10 THEN <<"0", Digit(n)>> ELSE Dec(n)

(***************************************************************************)
(* CacheService.  A cache file holds text; json.load either fails on it or *)
(* yields a document: an object with optional members cached_at and data, *)
(* an array, a string, a number or null.                                   *)
(***************************************************************************)
TicksPerHour == 2
MaxNow == 5
\* The max_age_hours the callers pass, scaled down.
MaxAgeChoices == {1, 2}

\* The keys the endpoints build, and the payloads they store.
Keys == {"activities_1", "best_efforts_1"}
Payloads == {"week", "month"}

NoFile == [kind |-> "absent"]
Garbage == [kind |-> "text"]
JsonFile(doc) == [kind |-> "json", doc |-> doc]

JsonString(s) == [type |-> "string", s |-> s]
JsonNumber(n) == [type |-> "number", n |-> n]
JsonNull == [type |-> "null"]
JsonArray == [type |-> "array"]
JsonObject(cached_at, data) == [type |-> "object", cached_at |-> cached_at, data |-> data]
JsonPayload(p) == [type |-> "object", payload |-> p]

\* json.load(f)
JsonLoad(content) ==
    IF content.kind = "json" THEN Return(content.doc) ELSE Raise("JSONDecodeError")

\* cache_data[key]: only an object can be subscripted by a string.
Subscript(cache_data, key) ==
    IF cache_data.type # "object" THEN Raise("TypeError")
    ELSE IF cache_data[key] = Missing THEN Raise("KeyError")
    ELSE Return(cache_data[key])

\* The days the clock runs through.
Days == <<"2024-01-01", "2024-01-02", "2024-01-03", "2024-01-04">>
TicksPerDay == 24 * TicksPerHour
LastTick == Len(Days) * TicksPerDay - 1

\* datetime.isoformat() of the tick t, counted from midnight of 2024-01-01,
\* without microseconds.
IsoFormat(t) ==
    <<Days[t \div TicksPerDay + 1], "T">> \o Pad2((t % TicksPerDay) \div TicksPerHour)
    \o <<":">> \o Pad2((t % TicksPerHour) * (60 \div TicksPerHour)) \o <<":", "0", "0">>

IsDigit(c) == c \in {"0", "1", "2", "3", "4", "5", "6", "7", "8", "9"}
DigitValue(c) == CHOOSE n \in 0..9 : Digit(n) = c
TwoDigits(s, i) == 10 * DigitValue(s[i]) + DigitValue(s[i + 1])

\* datetime.fromisoformat(value) for the timestamps of those days.
FromIsoFormat(value) ==
    IF value.type # "string" THEN Raise("TypeError")
    ELSE LET s == value.s
         IN  IF /\ Len(s) = 10
                /\ \E d \in 1..Len(Days) : s[1] = Days[d]
                /\ s[2] = "T" /\ s[5] = ":" /\ s[8] = ":"
                /\ \A i \in {3, 4, 6, 7, 9, 10} : IsDigit(s[i])
                /\ TwoDigits(s, 3) < 24 /\ TwoDigits(s, 6) < 60 /\ TwoDigits(s, 9) < 60
             THEN Return(((CHOOSE d \in 1..Len(Days) : s[1] = Days[d]) - 1) * TicksPerDay
                         + TwoDigits(s, 3) * TicksPerHour
                         + TwoDigits(s, 6) \div (60 \div TicksPerHour))
             ELSE Raise("ValueError")

\* cache_path.exists()
Exists(fs, key) == fs[key] # NoFile

\* cache_path.unlink()
Unlink(fs, key) ==
    IF Exists(fs, key) THEN Return([fs EXCEPT ![key] = NoFile])
    ELSE Raise("FileNotFoundError")

\* An expiry test that no longer counts the boundary instant as fresh.
ExpiredAtBoundary(clock, expires_at) == clock >= expires_at

\* datetime.now() > expires_at
Expired(clock, expires_at) == clock > expires_at

\* The value get hands back for a JSON value: null is None.
Loaded(value) == IF value = JsonNull THEN None ELSE Val(value)

\* The try block of get: the exception raised, or what is returned and
\* the files left.
TryGet(fs, key, max_age_hours, clock) ==
    LET cache_data == JsonLoad(fs[key])
        stamp      == Subscript(cache_data.value, "cached_at")
        cached_at  == FromIsoFormat(stamp.value)
        expires_at == cached_at.value + max_age_hours * TicksPerHour
        data       == Subscript(cache_data.value, "data")
    IN  IF cache_data.raised THEN cache_data
        ELSE IF stamp.raised THEN stamp
        ELSE IF cached_at.raised THEN cached_at
        ELSE IF Expired(clock, expires_at)
        THEN Return([outcome |-> Return(None), files |-> Unlink(fs, key).value])
        ELSE IF data.raised THEN data
        ELSE Return([outcome |-> Return(Loaded(data.value)), files |-> fs])

\* A get that stamps the entry anew whenever it hands its payload back.
GetRefreshing(fs, key, max_age_hours, clock) ==
    IF ~Exists(fs, key) THEN [outcome |-> Return(None), files |-> fs]
    ELSE LET try == TryGet(fs, key, max_age_hours, clock)
         IN  IF ~try.raised
             THEN IF Exists(try.value.files, key)
                  THEN [outcome |-> try.value.outcome,
                        files   |-> [fs EXCEPT ![key] =
                                        JsonFile(JsonObject(JsonString(IsoFormat(clock)),
                                                            fs[key].doc.data))]]
                  ELSE try.value
             ELSE IF try.error \in {"JSONDecodeError", "KeyError", "ValueError"}
             THEN [outcome |-> Return(None), files |-> Unlink(fs, key).value]
             ELSE [outcome |-> try, files |-> fs]

\* get(key, max_age_hours) at the time clock: its outcome and the files left.
Get(fs, key, max_age_hours, clock) ==
    IF ~Exists(fs, key) THEN [outcome |-> Return(None), files |-> fs]
    ELSE LET try == TryGet(fs, key, max_age_hours, clock)
         IN  IF ~try.raised THEN try.value
             ELSE IF try.error \in {"JSONDecodeError", "KeyError", "ValueError"}
             THEN [outcome |-> Return(None), files |-> Unlink(fs, key).value]
             ELSE [outcome |-> try, files |-> fs]

\* A set that keeps the timestamp of the entry it replaces.
SetKeepingStamp(fs, key, data, clock) ==
    [outcome |-> Return(None),
     files   |-> [fs EXCEPT ![key] =
                     IF fs[key].kind = "json" /\ fs[key].doc.type = "object"
                        /\ fs[key].doc.cached_at # Missing
                     THEN JsonFile(JsonObject(fs[key].doc.cached_at, data))
                     ELSE JsonFile(JsonObject(JsonString(IsoFormat(clock)), data))]]

\* set(key, data) at the time clock.
Set(fs, key, data, clock) ==
    [outcome |-> Return(None),
     files   |-> [fs EXCEPT ![key] =
                     JsonFile(JsonObject(JsonString(IsoFormat(clock)), data))]]

\* A delete that unlinks without looking whether the file is there.
DeleteUnchecked(fs, key) ==
    LET unlinked == Unlink(fs, key)
    IN  IF unlinked.raised THEN [outcome |-> unlinked, files |-> fs]
        ELSE [outcome |-> Return(None), files |-> unlinked.value]

\* delete(key)
Delete(fs, key) ==
    IF Exists(fs, key)
    THEN [outcome |-> Return(None), files |-> Unlink(fs, key).value]
    ELSE [outcome |-> Return(None), files |-> fs]

\* clear_all(): every file the glob finds is unlinked.
ClearAll(fs) ==
    [outcome |-> Return(None),
     files   |-> [k \in DOMAIN fs |-> IF Exists(fs, k) THEN Unlink(fs, k).value[k] ELSE fs[k]]]

(***************************************************************************)
(* PersonalRecordsService                                                  *)
(***************************************************************************)
\* The keys of DISTANCES in insertion order, which is the iteration order.
DistanceNames == <<"1km", "5km", "10km", "half_marathon", "marathon">>
DistanceKeys == {DistanceNames[i] : i \in 1..Len(DistanceNames)}

DISTANCES ==
    [k \in DistanceKeys |->
        CASE k = "1km" -> FromInt(1000)
          [] k = "5km" -> FromInt(5000)
          [] k = "10km" -> FromInt(10000)
          [] k = "half_marathon" -> FromHalves(42195)
          [] k = "marathon" -> FromInt(42195)]

\* DISTANCE_TOLERANCE = 0.02: the literal denotes the double nearest 2/100,
\* 0x1.47ae147ae147bp-6, here in limbs of units of 2^-72.
DISTANCE_TOLERANCE == <<0, 492, 2949, 1310, 3768, 81, 0, 0, 0>>

\* DISTANCE_MAPPING.get(name): None for a name that is no key.
DISTANCE_MAPPING(name) ==
    CASE name = Val("1k") -> Val("1km")
      [] name = Val("5k") -> Val("5km")
      [] name = Val("10k") -> Val("10km")
      [] name = Val("Half-Marathon") -> Val("half_marathon")
      [] name = Val("Marathon") -> Val("marathon")
      [] OTHER -> None

\* _format_time without the :02d of its format specifications.
FormatTimeUnpadded(seconds) ==
    LET hours   == seconds \div 3600
        minutes == (seconds % 3600) \div 60
        secs    == seconds % 60
    IN  IF hours > 0
        THEN Dec(hours) \o <<":">> \o Dec(minutes) \o <<":">> \o Dec(secs)
        ELSE Dec(minutes) \o <<":">> \o Dec(secs)

\* _format_time
FormatTime(seconds) ==
    LET hours   == seconds \div 3600
        minutes == (seconds % 3600) \div 60
        secs    == seconds % 60
    IN  IF hours > 0
        THEN Dec(hours) \o <<":">> \o Pad2(minutes) \o <<":">> \o Pad2(secs)
        ELSE Dec(minutes) \o <<":">> \o Pad2(secs)

\* _calculate_pace: float division and multiplication, then // 60 and % 60
\* of the float, both exact, truncated by int().  None as the distance makes
\* the division raise TypeError; that case is decided by the callers.
CalculatePace(time_seconds, distance_meters) ==
    IF distance_meters = FromInt(0) THEN <<"N", "/", "A">>
    ELSE LET pace_seconds == FMul(FDiv(FromInt(time_seconds), distance_meters),
                                  FromInt(1000))
             whole        == IntPart(pace_seconds)
         IN  Dec(whole \div 60) \o <<":">> \o Pad2(whole % 60) \o <<"/", "k", "m">>

\* Records that start from what the previous call on the instance returned.
LeakedRecords ==
    IF latest # NotCalled /\ ~latest.outcome.raised THEN latest.outcome.value
    ELSE [k \in DistanceKeys |-> None]

\* personal_records = {name: None for each name}
InitialRecords == [k \in DistanceKeys |-> None]

\* a.get('type') == 'Run'
IsRun(a) == DictGet(a, "type", None) = Val("Run")

\* [a for a in activities if a.get('type') == 'Run']
RECURSIVE RunActivities(_)
RunActivities(activities) ==
    IF activities = <<>> THEN <<>>
    ELSE (IF IsRun(Head(activities)) THEN <<Head(activities)>> ELSE <<>>)
         \o RunActivities(Tail(activities))

\* max_diff = target_distance * self.DISTANCE_TOLERANCE
MaxDiff(target_distance) == FMul(target_distance, DISTANCE_TOLERANCE)

\* distance_diff <= max_diff, with distance_diff = abs(distance - target)
WithinTolerance(activity_distance, target_distance) ==
    BigLeq(FAbsSub(activity_distance, target_distance), MaxDiff(target_distance))

\* A comparison that keeps the first qualifying activity.
FirstWins(moving_time, best_time) == best_time = None

\* best_time is None or moving_time < best_time
Faster(moving_time, best_time) == best_time = None \/ moving_time < best_time.v

\* The inner loop over run_activities for one target, from index i on, with
\* the best so far; an operand that is None raises TypeError.
RECURSIVE ScanActivities(_, _, _, _)
ScanActivities(run_activities, target_distance, i, best) ==
    IF i > Len(run_activities) THEN Return(best)
    ELSE LET activity          == run_activities[i]
             activity_distance == DictGet(activity, "distance", Val(FromInt(0)))
             moving_time       == DictGet(activity, "moving_time", Val(0))
         IN  IF activity_distance = None THEN Raise("TypeError")
             ELSE IF ~WithinTolerance(activity_distance.v, target_distance)
             THEN ScanActivities(run_activities, target_distance, i + 1, best)
             ELSE IF moving_time = None THEN Raise("TypeError")
             ELSE IF moving_time.v > 0 /\ Faster(moving_time.v, best.best_time)
             THEN ScanActivities(run_activities, target_distance, i + 1,
                     [best_time |-> moving_time, best_activity |-> Val(activity)])
             ELSE ScanActivities(run_activities, target_distance, i + 1, best)

\* The record built from the best activity; None.split raises AttributeError.
ActivityRecord(best_time, best_activity) ==
    LET date == DictGet(best_activity, "start_date_local", Val(<<>>))
    IN  IF date = None THEN Raise("AttributeError")
        ELSE Return(Val([time_seconds   |-> best_time,
                         time_formatted |-> FormatTime(best_time),
                         pace           |-> CalculatePace(best_time,
                                                          best_activity.distance.v),
                         date           |-> SplitT(date.v),
                         activity_id    |-> DictGet(best_activity, "id", None),
                         activity_name  |-> DictGet(best_activity, "name", None)]))

\* One pass of the outer loop: what personal_records[distance_name] ends as,
\* the initial entry when there is no best activity, or the exception raised.
RecordFor(run_activities, distance_name) ==
    LET scan == ScanActivities(run_activities, DISTANCES[distance_name], 1,
                               [best_time |-> None, best_activity |-> None])
    IN  IF scan.raised THEN scan
        ELSE IF scan.value.best_activity = None
        THEN Return(InitialRecords[distance_name])
        ELSE ActivityRecord(scan.value.best_time.v, scan.value.best_activity.v)

\* The outer loop over the names in order: the first pass that raises ends
\* the call; otherwise every pass has set its own entry.
LoopOutcome(passes) ==
    IF \E j \in 1..Len(passes) : passes[j].raised
    THEN passes[CHOOSE j \in 1..Len(passes) :
                    passes[j].raised /\ \A i \in 1..(j - 1) : ~passes[i].raised]
    ELSE Return([k \in DistanceKeys |->
                    passes[CHOOSE j \in 1..Len(passes) : DistanceNames[j] = k].value])

\* calculate_personal_records
CalculatePersonalRecords(activities) ==
    LoopOutcome(AsTuple([j \in 1..Len(DistanceNames) |->
                          RecordFor(RunActivities(activities), DistanceNames[j])],
                      Len(DistanceNames)))

\* all_best_efforts: the groups flattened in order; a group that is None or
\* empty is falsy and adds nothing.
RECURSIVE Flatten(_)
Flatten(best_efforts_by_activity) ==
    IF best_efforts_by_activity = <<>> THEN <<>>
    ELSE (IF Head(best_efforts_by_activity) = None THEN <<>>
          ELSE Head(best_efforts_by_activity).v)
         \o Flatten(Tail(best_efforts_by_activity))

\* effort.get('start_date_local', '').split('T')[0] if effort.get('start_date_local') else ''
EffortDate(effort) ==
    IF Truthy(effort.start_date_local) THEN SplitT(effort.start_date_local.v) ELSE <<>>

\* The record of an effort whose distance is not None.
EffortRecord(effort, effort_name, moving_time) ==
    [time_seconds   |-> moving_time,
     time_formatted |-> FormatTime(moving_time),
     pace           |-> CalculatePace(moving_time,
                                      DictGet(effort, "distance", Val(FromInt(0))).v),
     date           |-> EffortDate(effort),
     activity_id    |-> DictGet(effort, "activity_id", None),
     effort_name    |-> effort_name]

\* current_best is None or moving_time < current_best['time_seconds']
FasterEffort(moving_time, current_best) ==
    current_best = None \/ moving_time < current_best.v.time_seconds

\* The loop over all_best_efforts from index i on; None as moving_time of a
\* mapped effort, or as distance of an effort that becomes the best, raises
\* TypeError.
RECURSIVE ScanEfforts(_, _, _)
ScanEfforts(all_best_efforts, i, personal_records) ==
    IF i > Len(all_best_efforts) THEN Return(personal_records)
    ELSE LET effort       == all_best_efforts[i]
             effort_name  == DictGet(effort, "name", Val(""))
             distance_key == DISTANCE_MAPPING(effort_name)
             moving_time  == DictGet(effort, "moving_time", Val(0))
         IN  IF distance_key = None
             THEN ScanEfforts(all_best_efforts, i + 1, personal_records)
             ELSE IF moving_time = None THEN Raise("TypeError")
             ELSE IF moving_time.v > 0
                     /\ FasterEffort(moving_time.v, personal_records[distance_key.v])
             THEN IF DictGet(effort, "distance", Val(FromInt(0))) = None
                  THEN Raise("TypeError")
                  ELSE ScanEfforts(all_best_efforts, i + 1,
                          [personal_records EXCEPT ![distance_key.v] =
                              Val(EffortRecord(effort, effort_name, moving_time.v))])
             ELSE ScanEfforts(all_best_efforts, i + 1, personal_records)

\* calculate_personal_records_from_best_efforts
CalculatePersonalRecordsFromBestEfforts(best_efforts_by_activity) ==
    ScanEfforts(Flatten(best_efforts_by_activity), 1, InitialRecords)

(***************************************************************************)
(* UserSettingsService.  A settings dict is a record of its four keys; the *)
(* zones are a record of the keys zone1..zone6.                            *)
(***************************************************************************)
\* The doubles the literals 0.50, 0.60, 0.70, 0.80, 0.90 and 0.95 denote:
\* 0x1p-1, 0x1.3333333333333p-1, 0x1.6666666666666p-1,
\* 0x1.999999999999ap-1, 0x1.ccccccccccccdp-1 and 0x1.e666666666666p-1.
Percent ==
    [p \in {"0.50", "0.60", "0.70", "0.80", "0.90", "0.95"} |->
        CASE p = "0.50" -> <<0, 0, 0, 0, 0, 2048, 0, 0, 0>>
          [] p = "0.60" -> <<0, 2432, 2457, 2457, 2457, 2457, 0, 0, 0>>
          [] p = "0.70" -> <<0, 768, 819, 819, 819, 2867, 0, 0, 0>>
          [] p = "0.80" -> <<0, 3328, 3276, 3276, 3276, 3276, 0, 0, 0>>
          [] p = "0.90" -> <<0, 1664, 1638, 1638, 1638, 3686, 0, 0, 0>>
          [] p = "0.95" -> <<0, 768, 819, 819, 819, 3891, 0, 0, 0>>]

\* int(max_hr * p): the float product, truncated towards zero.
IntOfProduct(max_hr, p) ==
    IF max_hr >= 0 THEN IntPart(FMul(FromInt(max_hr), Percent[p]))
    ELSE 0 - IntPart(FMul(FromInt(0 - max_hr), Percent[p]))

Zone(min, max, name) == [min |-> min, max |-> max, name |-> name]

\* _calculate_zones
CalculateZones(max_hr) ==
    [zone1 |-> Zone(IntOfProduct(max_hr, "0.50"), IntOfProduct(max_hr, "0.60"), "Recovery"),
     zone2 |-> Zone(IntOfProduct(max_hr, "0.60"), IntOfProduct(max_hr, "0.70"), "Aerobic"),
     zone3 |-> Zone(IntOfProduct(max_hr, "0.70"), IntOfProduct(max_hr, "0.80"), "Tempo"),
     zone4 |-> Zone(IntOfProduct(max_hr, "0.80"), IntOfProduct(max_hr, "0.90"), "Threshold"),
     zone5 |-> Zone(IntOfProduct(max_hr, "0.90"), IntOfProduct(max_hr, "0.95"), "VO2 Max"),
     zone6 |-> Zone(IntOfProduct(max_hr, "0.95"), max_hr, "Anaerobic")]

default_max_hr == 190

\* The values of max_hr the service holds: the ones its callers pass here,
\* and the default.
ServiceMaxHrs == <<0 - 1, 180, default_max_hr>>

\* _calculate_zones on each of these values, computed once.
ZonesTable ==
    SubSeq([i \in 1..Len(ServiceMaxHrs) |-> CalculateZones(ServiceMaxHrs[i])],
           1, Len(ServiceMaxHrs))

\* self._calculate_zones(max_hr), as the service's methods call it.
ZonesOf(max_hr) ==
    ZonesTable[CHOOSE i \in 1..Len(ServiceMaxHrs) : ServiceMaxHrs[i] = max_hr]

\* A default whose zones are those of another max_hr.
StaleDefault ==
    [max_hr |-> Val(default_max_hr), fitness_age |-> None, actual_age |-> None,
     hr_zones |-> ZonesOf(180)]

\* _default_settings
DefaultSettings ==
    [max_hr |-> Val(default_max_hr), fitness_age |-> None, actual_age |-> None,
     hr_zones |-> ZonesOf(default_max_hr)]

\* The content of a user file that save_settings wrote.
SettingsFile(settings) == [kind |-> "json", doc |-> settings]

\* get_settings
GetSettings(store, user_id) ==
    IF store[user_id] = NoFile THEN DefaultSettings ELSE store[user_id].doc

\* A save that writes the settings to every user's file.
SaveSettingsForAll(store, user_id, settings) ==
    [u \in DOMAIN store |-> SettingsFile(settings)]

\* save_settings: the store it leaves.
SaveSettings(store, user_id, settings) ==
    [store EXCEPT ![user_id] = SettingsFile(settings)]

\* update_hr_zones that recalculates the zones from max_hr.
UpdateHrZonesRecalculating(store, user_id, zones) ==
    LET read     == GetSettings(store, user_id)
        settings == [read EXCEPT !.hr_zones = ZonesOf(read.max_hr.v)]
    IN  [settings |-> settings, store |-> SaveSettings(store, user_id, settings)]

\* update_hr_zones: the settings it returns and the store it leaves.
UpdateHrZones(store, user_id, zones) ==
    LET settings == [GetSettings(store, user_id) EXCEPT !.hr_zones = zones]
    IN  [settings |-> settings, store |-> SaveSettings(store, user_id, settings)]

\* if argument is not None: settings[key] = argument
SetIfGiven(settings, key, argument) ==
    IF argument # None THEN [settings EXCEPT ![key] = argument] ELSE settings

\* The zones left as they are.
Unrecalculated(settings) == settings

\* if 'max_hr' in settings: settings['hr_zones'] = self._calculate_zones(settings['max_hr'])
Recalculated(settings) ==
    IF settings.max_hr # Missing
    THEN [settings EXCEPT !.hr_zones = ZonesOf(settings.max_hr.v)]
    ELSE settings

\* The zones recalculated before the arguments are applied.
WithParamsZonesFirst(read, max_hr, fitness_age, actual_age) ==
    SetIfGiven(SetIfGiven(SetIfGiven(Recalculated(read), "max_hr", max_hr),
                          "fitness_age", fitness_age),
               "actual_age", actual_age)

\* The settings update_hr_params builds from the ones it read.
WithParams(read, max_hr, fitness_age, actual_age) ==
    Recalculated(SetIfGiven(SetIfGiven(SetIfGiven(read, "max_hr", max_hr),
                                       "fitness_age", fitness_age),
                            "actual_age", actual_age))

\* update_hr_params: the settings it returns and the store it leaves.
UpdateHrParams(store, user_id, max_hr, fitness_age, actual_age) ==
    LET settings == WithParams(GetSettings(store, user_id), max_hr, fitness_age, actual_age)
    IN  [settings |-> settings, store |-> SaveSettings(store, user_id, settings)]

(***************************************************************************)
(* The auth router.  state_store is a dict whose values are all True: the  *)
(* set of its keys.  A state token is a string, as every query parameter.  *)
(***************************************************************************)
\* secrets.token_urlsafe(32): the i-th token generated.
TokenUrlsafe(i) == <<"state", Digit(i)>>

\* What callback does with a verified state, had it kept it in the store.
KeepUsedState(store, state) == store

\* del state_store[state]
RemoveUsedState(store, state) == store \ {state}

\* HTTPException(status_code, detail) and the other responses.
Response(status_code, detail, verified, exchanged) ==
    [status_code |-> status_code, detail |-> detail, verified |-> verified,
     exchanged |-> exchanged]

\* callback: the response and the state_store it leaves; token_status is the
\* status of the answer to the token request, should one be made.
CallbackOutcome(store, code, state, error, token_status) ==
    IF Truthy(error)
    THEN [response |-> Response(400, "Authorization failed", FALSE, FALSE), store |-> store]
    ELSE IF ~Truthy(state) \/ state.v \notin store
    THEN [response |-> Response(400, "Invalid state parameter", FALSE, FALSE),
          store |-> store]
    ELSE IF ~Truthy(code)
    THEN [response |-> Response(400, "No authorization code received", TRUE, FALSE),
          store |-> RemoveUsedState(store, state.v)]
    ELSE IF token_status # 200
    THEN [response |-> Response(token_status, "Failed to exchange authorization code",
                                TRUE, TRUE),
          store |-> RemoveUsedState(store, state.v)]
    ELSE [response |-> Response(200, "dashboard.html", TRUE, TRUE),
          store |-> RemoveUsedState(store, state.v)]

(***************************************************************************)
(* The pagination loop of get_activities.  The list activities is its      *)
(* length; a response is its status code and what response.json() makes    *)
(* of its body.                                                            *)
(***************************************************************************)
per_page == 100
ActivityLimit == 200

\* The bodies of a response: an iterable JSON value (a list, for Strava) of
\* n items, a scalar that is false (null, 0, false) or true (a number, true)
\* as a condition, or text that is no JSON.
Batch(n) == [kind |-> "iterable", len |-> n]
FalseScalar == [kind |-> "false scalar", len |-> 0]
TrueScalar == [kind |-> "true scalar", len |-> 0]
NotJson == [kind |-> "not JSON", len |-> 0]

\* The locals of the loop and, once the handler has returned, its result:
\* requests counts the page requests made, extended the batches added, and
\* response is the latest answer.
Fetching(page, activities, requests, extended) ==
    [page |-> page, activities |-> activities, requests |-> requests,
     extended |-> extended, response |-> None, returned |-> None]

\* What the handler returns, and whether it put the result in the cache.
Returned(state, status_code, error, activities, cached) ==
    [state EXCEPT !.returned = Val([status_code |-> status_code, error |-> error,
                                    activities |-> activities, cached |-> cached])]

\* break, then: result = {"activities": activities}; cache_service.set; return result
Break(state) == Returned(state, 200, None, state.activities, TRUE)

\* except Exception as e: return {"error": str(e)}, 500
Except(state, e) == Returned(state, 500, Val(e), 0, FALSE)

\* A loop that asks for the same page again.
SamePage(page) == page

\* page += 1
NextPage(page) == page + 1

\* One turn of the while loop, from the answer to the page request on.
Turn(state, status_code, body) ==
    LET asked == [state EXCEPT !.requests = @ + 1,
                               !.response = Val([status_code |-> status_code,
                                                 body |-> body])]
        more  == [asked EXCEPT !.activities = @ + body.len,
                               !.page = NextPage(@),
                               !.extended = @ + 1]
    IN  IF status_code = 429 THEN Returned(asked, 429, Val("Rate limited"), 0, FALSE)
        ELSE IF status_code # 200 THEN Break(asked)
        ELSE IF body = NotJson THEN Except(asked, "JSONDecodeError")
        ELSE IF body = FalseScalar \/ body = Batch(0) THEN Break(asked)
        ELSE IF body = TrueScalar THEN Except(asked, "TypeError")
        ELSE IF more.activities >= ActivityLimit THEN Break(more)
        ELSE more

(***************************************************************************)
(* The activity lists the derivation is called with.  A list is drawn from *)
(* one of three pools: runs around the targets, runs at the edges of the   *)
(* 2% window, and records with a field missing, zero or null.              *)
(***************************************************************************)
MaxLen == 3
MaxEdgeLen == 2
MaxMalformedLen == 2

Morning == <<"2024-03-10", "T", "08:15:00Z">>
Evening == <<"2024-04-01", "T", "19:30:00Z">>
Noon == <<"2024-05-05", "T", "12:00:00Z">>

Activity(id, type, distance, moving_time, start_date_local, name) ==
    [id |-> Val(id), type |-> Val(type), distance |-> Val(distance),
     moving_time |-> Val(moving_time), start_date_local |-> Val(start_date_local),
     name |-> Val(name)]

\* Two 5 km runs of different times, a third tying with the faster one, a
\* faster ride, a run 4% off, a run of zero moving time, and runs at 1 km,
\* 10 km and the half marathon.
CoreActivities ==
    {Activity(1, "Run", FromInt(5010), 1200, Morning, "Morning Run"),
     Activity(2, "Run", FromInt(5090), 1100, Evening, "Race"),
     Activity(3, "Run", FromInt(5000), 1100, Noon, "Parkrun"),
     Activity(4, "Ride", FromInt(5000), 600, Morning, "Commute"),
     Activity(5, "Run", FromInt(5200), 900, Evening, "Long Five"),
     Activity(6, "Run", FromInt(5000), 0, Noon, "Treadmill"),
     Activity(7, "Run", FromInt(1000), 1001, Morning, "Kilometre"),
     Activity(8, "Run", FromInt(10000), 3600, Evening, "Ten"),
     Activity(9, "Run", FromHalves(42195), 5400, Noon, "Half")}

\* The doubles the literals 1.02, 0.98 and 1.021 denote:
\* 0x1.051eb851eb852p+0, 0x1.f5c28f5c28f5cp-1 and 0x1.05604189374bcp+0.
EdgeFactor ==
    [f \in {"1.02", "0.98", "1.021"} |->
        CASE f = "1.02"  -> <<0, 512, 2949, 1310, 3768, 81, 1, 0, 0>>
          [] f = "0.98"  -> <<0, 3584, 1146, 2785, 327, 4014, 0, 0, 0>>
          [] f = "1.021" -> <<0, 3072, 1867, 2195, 65, 86, 1, 0, 0>>]

\* A run of the distance target * factor, as the float product gives it.
EdgeRun(distance_name, f) ==
    [id |-> Val(100), type |-> Val("Run"),
     distance |-> Val(FMul(DISTANCES[distance_name], EdgeFactor[f])),
     moving_time |-> Val(1500), start_date_local |-> Val(Morning),
     name |-> Val(f)]

EdgeActivities == {EdgeRun(k, f) : k \in DistanceKeys, f \in DOMAIN EdgeFactor}

\* A sound 5 km run, and the same run with one field missing, null or zero.
Sound == Activity(20, "Run", FromInt(5000), 1100, Morning, "Sound")

ZeroOf ==
    [field \in {"distance", "moving_time", "start_date_local", "name", "type"} |->
        CASE field = "distance"         -> Val(FromInt(0))
          [] field = "moving_time"      -> Val(0)
          [] field = "start_date_local" -> Val(<<>>)
          [] field = "name"             -> Val("")
          [] field = "type"             -> Val("")]

Malformed(field, defect) ==
    [Sound EXCEPT ![field] = CASE defect = "missing" -> Missing
                               [] defect = "null"    -> None
                               [] defect = "zero"    -> ZeroOf[field]]

MalformedActivities ==
    {Malformed(field, defect) : field \in DOMAIN ZeroOf, defect \in {"missing", "null", "zero"}}
    \cup {Activity(21, "Run", FromInt(5000), 1200, Evening, "Slower")}

Feeds == {"core", "edge", "malformed"}

Pool(f) ==
    CASE f = "core" -> CoreActivities
      [] f = "edge" -> EdgeActivities
      [] f = "malformed" -> MalformedActivities
      [] OTHER -> {}

PoolLen(f) ==
    CASE f = "core" -> MaxLen
      [] f = "edge" -> MaxEdgeLen
      [] f = "malformed" -> MaxMalformedLen

(***************************************************************************)
(* The best-effort groups the derivation is called with: each activity     *)
(* contributes a group, which is None, empty, or a list of efforts.        *)
(***************************************************************************)
MaxGroups == 2
MaxGroupLen == 2

Effort(name, moving_time, distance, start_date_local, activity_id) ==
    [name |-> name, moving_time |-> moving_time, distance |-> distance,
     start_date_local |-> start_date_local, activity_id |-> Val(activity_id)]

\* Three 5k efforts, two of them tying for the fastest, a 10k effort, an
\* effort of a name that is no key, efforts of zero, negative, missing and
\* null moving time, and a fastest effort with a null distance.
Efforts ==
    {Effort(Val("5k"), Val(1250), Val(FromInt(5000)), Val(Morning), 11),
     Effort(Val("5k"), Val(1190), Val(FromInt(5000)), Val(Evening), 12),
     Effort(Val("5k"), Val(1190), Val(FromInt(5000)), Missing, 13),
     Effort(Val("10k"), Val(2500), Val(FromInt(10000)), Val(Evening), 12),
     Effort(Val("400m"), Val(70), Val(FromInt(400)), Val(Noon), 13),
     Effort(Val("5k"), Val(0), Val(FromInt(5000)), Val(Noon), 14),
     Effort(Val("5k"), Val(0 - 5), Val(FromInt(5000)), Val(Noon), 15),
     Effort(Val("5k"), Missing, Val(FromInt(5000)), Val(Noon), 16),
     Effort(Val("5k"), None, Val(FromInt(5000)), Val(Noon), 17),
     Effort(Val("5k"), Val(1000), None, Val(Noon), 18)}

(***************************************************************************)
(* The endpoints get_activities and get_best_efforts of main.py: the cache *)
(* in front of the requests to Strava.  A handler is its locals; it stops  *)
(* at each await until the response is there.                              *)
(***************************************************************************)
Endpoints == {"get_activities", "get_best_efforts"}

\* cache_key, for the one user and the one date range of the model.
CacheKey(endpoint) ==
    IF endpoint = "get_activities" THEN "activities_1" ELSE "best_efforts_1"

activities_max_age_hours == 1
best_efforts_max_age_hours == 24

\* max_age_hours of the endpoint's cache_service.get
MaxAgeHours(endpoint) ==
    IF endpoint = "get_activities" THEN activities_max_age_hours
    ELSE best_efforts_max_age_hours

\* run_ids[:15]
DetailLimit == 15

\* What an endpoint returns.
Result(content) == [kind |-> "result", content |-> content]
RateLimited == [kind |-> "rate limited", content |-> None]
ServerError(e) == [kind |-> "error", content |-> Val(e)]
NotAuthenticated == [kind |-> "not authenticated", content |-> None]

\* The body of the list response of get_best_efforts: the types of its
\* activities in order; and of a detail response: the activity's
\* best_efforts member.
Listing(types) == [kind |-> "iterable", types |-> types]
Detail(best_efforts) == [kind |-> "object", best_efforts |-> best_efforts]

\* The locals of a handler that has just been called: nothing asked of
\* Strava, nothing asked of the cache, no response.  partial tells whether
\* the best-efforts entry of the cache comes from an interrupted fetch.
Called(endpoint, refresh, partial) ==
    [endpoint |-> endpoint, refresh |-> refresh, awaiting |-> "nothing",
     loop |-> Fetching(1, 0, 0, 0), activity_ids |-> 0, index |-> 0,
     all_best_efforts |-> <<>>, upstream |-> 0, cache_read |-> FALSE,
     set_called |-> FALSE, fetched |-> FALSE, answered |-> None,
     response |-> None, partial |-> partial]

\* return r: the locals of the loops are gone, what stays is what the
\* handler did and what it returned.
Responding(state, r) ==
    [state EXCEPT !.awaiting = "nothing", !.response = Val(r),
                  !.loop = Fetching(1, 0, 0, 0), !.activity_ids = 0, !.index = 0,
                  !.all_best_efforts = <<>>]

\* response = await client.get(...)
Awaiting(state, what) == [state EXCEPT !.awaiting = what, !.upstream = @ + 1]

\* cached_data["cached"] = True, in get_best_efforts only
MarkedCached(endpoint, cached_data) ==
    IF endpoint = "get_best_efforts" THEN [cached_data EXCEPT !.cached = TRUE]
    ELSE cached_data

\* cached_data = cache_service.get(cache_key, max_age_hours=...); if
\* cached_data: return cached_data.  What the endpoints store is a dict
\* with keys, which is true; an exception of get is caught by the handler;
\* after a miss the handler goes on to its first request.
AskCache(fs, clock, state) ==
    LET cache_key == CacheKey(state.endpoint)
        got       == Get(fs, cache_key, MaxAgeHours(state.endpoint), clock)
        asked     == [state EXCEPT !.cache_read = TRUE,
                                   !.partial = @ /\ (cache_key = "best_efforts_1"
                                                        => Exists(got.files, cache_key))]
    IN  IF got.outcome.raised
        THEN [files |-> got.files, state |-> Responding(asked, ServerError(got.outcome.error))]
        ELSE IF got.outcome.value # None
        THEN [files |-> got.files,
              state |-> Responding(asked,
                            Result(MarkedCached(state.endpoint,
                                                got.outcome.value.v.payload)))]
        ELSE [files |-> got.files, state |-> Awaiting(asked, "list")]

\* if not refresh: the cache is asked; with refresh the handler goes on to
\* its first request at once.
CheckCache(fs, clock, state) ==
    IF state.refresh THEN [files |-> fs, state |-> Awaiting(state, "list")]
    ELSE AskCache(fs, clock, state)

\* The handler from its call to its first await or return.
Enter(fs, clock, endpoint, refresh, access_token, partial) ==
    LET state == Called(endpoint, refresh, partial)
    IN  IF ~access_token THEN [files |-> fs, state |-> Responding(state, NotAuthenticated)]
        ELSE CheckCache(fs, clock, state)

\* cache_service.set(cache_key, result); return result
CacheAndReturn(fs, clock, state, result_, interrupted) ==
    [files |-> Set(fs, CacheKey(state.endpoint), JsonPayload(result_), clock).files,
     state |-> Responding([state EXCEPT !.set_called = TRUE,
                                        !.partial = IF state.endpoint = "get_best_efforts"
                                                    THEN interrupted ELSE @],
                          Result(result_))]

\* The rate-limited return of a list request, had it cached what it returns.
RateLimitedCaching(fs, clock, state) ==
    CacheAndReturn(fs, clock, state,
                   IF state.endpoint = "get_activities" THEN [activities |-> 0]
                   ELSE [best_efforts |-> InitialRecords, cached |-> FALSE,
                         activities_checked |-> 0],
                   FALSE)

\* if response.status_code == 429: return the rate-limited response
RateLimitedReturn(fs, clock, state) ==
    [files |-> fs, state |-> Responding(state, RateLimited)]

\* except Exception as e: return {"error": str(e)}, 500
Caught(fs, state, e) == [files |-> fs, state |-> Responding(state, ServerError(e))]

\* get_activities from the answer to a page request on: a turn of the loop,
\* and after a break the result is cached and returned.
ActivitiesAnswer(fs, clock, state, status_code, body) ==
    LET turned  == Turn(state.loop, status_code, body)
        answer  == [state EXCEPT !.loop = turned,
                                 !.answered = Val([to |-> "list",
                                                   status_code |-> status_code])]
    IN  IF turned.returned = None THEN [files |-> fs, state |-> Awaiting(answer, "list")]
        ELSE IF turned.returned.v.status_code = 429 THEN RateLimitedReturn(fs, clock, answer)
        ELSE IF turned.returned.v.status_code = 500
        THEN Caught(fs, answer, turned.returned.v.error.v)
        ELSE CacheAndReturn(fs, clock, [answer EXCEPT !.fetched = TRUE],
                            [activities |-> turned.returned.v.activities], FALSE)

\* len([a['id'] for a in batch if a.get('type') == 'Run'])
RECURSIVE RunIds(_)
RunIds(types) ==
    IF types = <<>> THEN 0
    ELSE (IF Head(types) = "Run" THEN 1 ELSE 0) + RunIds(Tail(types))

\* The efforts a detail response carries: a 5k effort, a faster one, and one
\* whose moving time is null.
SlowEffort == Effort(Val("5k"), Val(1250), Val(FromInt(5000)), Val(Morning), 11)
FastEffort == Effort(Val("5k"), Val(1190), Val(FromInt(5000)), Val(Evening), 12)
NullEffort == Effort(Val("5k"), None, Val(FromInt(5000)), Val(Noon), 17)

\* The best_efforts lists of the detail responses, and the lists of them a
\* handler can have gathered, numbered.
DetailLists == <<Val(<<SlowEffort>>), Val(<<FastEffort>>), Val(<<NullEffort>>)>>
MaxListed == 2

RECURSIVE ListsCode(_)
ListsCode(all_best_efforts) ==
    IF all_best_efforts = <<>> THEN 0
    ELSE (CHOOSE i \in 1..Len(DetailLists) : DetailLists[i] = Head(all_best_efforts))
         + (Len(DetailLists) + 1) * ListsCode(Tail(all_best_efforts))

RECURSIVE ListsOfCode(_)
ListsOfCode(code) ==
    IF code = 0 THEN <<>>
    ELSE (IF code % (Len(DetailLists) + 1) = 0 THEN <<>>
          ELSE <<DetailLists[code % (Len(DetailLists) + 1)]>>)
         \o ListsOfCode(code \div (Len(DetailLists) + 1))

RECURSIVE Power(_, _)
Power(b, n) == IF n = 0 THEN 1 ELSE b * Power(b, n - 1)

\* What the derivation makes of each of them, computed once.
Derived ==
    LET n == Power(Len(DetailLists) + 1, MaxListed)
    IN  SubSeq([code \in 1..n |->
                   CalculatePersonalRecordsFromBestEfforts(ListsOfCode(code - 1))], 1, n)

\* calculate_personal_records_from_best_efforts(all_best_efforts)
Derive(state) == Derived[ListsCode(state.all_best_efforts) + 1]

\* get_best_efforts from the end of the detail loop on: the records are
\* derived, the result is cached and returned; an exception of the
\* derivation is caught.
Conclude(fs, clock, state, interrupted) ==
    LET best_efforts_data == Derive(state)
        done              == [state EXCEPT !.fetched = TRUE]
    IN  IF best_efforts_data.raised THEN Caught(fs, done, best_efforts_data.error)
        ELSE CacheAndReturn(fs, clock, done,
                            [best_efforts |-> best_efforts_data.value, cached |-> FALSE,
                             activities_checked |-> state.activity_ids],
                            interrupted)

\* get_best_efforts from the answer to its list request on.
ListAnswer(fs, clock, state, status_code, body) ==
    LET answer == [state EXCEPT !.answered = Val([to |-> "list",
                                                  status_code |-> status_code])]
        run_ids == RunIds(body.types)
        ids     == [answer EXCEPT !.activity_ids =
                                      IF run_ids > DetailLimit THEN DetailLimit ELSE run_ids]
    IN  IF status_code = 429 THEN RateLimitedReturn(fs, clock, answer)
        ELSE IF status_code # 200 THEN Conclude(fs, clock, answer, FALSE)
        ELSE IF body = NotJson THEN Caught(fs, answer, "JSONDecodeError")
        ELSE IF ids.activity_ids = 0 THEN Conclude(fs, clock, ids, FALSE)
        ELSE [files |-> fs, state |-> Awaiting(ids, "detail")]

\* detailed_activity.get('best_efforts', []), appended if it is true
Appended(all_best_efforts, body) ==
    LET best_efforts == DictGet(body, "best_efforts", Val(<<>>))
    IN  IF Truthy(best_efforts) THEN Append(all_best_efforts, best_efforts)
        ELSE all_best_efforts

\* get_best_efforts from the answer to a detail request on: a turn of the
\* for loop, and after it the conclusion.
DetailAnswer(fs, clock, state, status_code, body) ==
    LET answer == [state EXCEPT !.index = @ + 1,
                                !.answered = Val([to |-> "detail",
                                                  status_code |-> status_code])]
        more   == IF status_code = 200
                  THEN [answer EXCEPT !.all_best_efforts = Appended(@, body)]
                  ELSE answer
    IN  IF status_code = 429 THEN Conclude(fs, clock, answer, TRUE)
        ELSE IF status_code = 200 /\ body = NotJson
        THEN Caught(fs, answer, "JSONDecodeError")
        ELSE IF more.index = more.activity_ids THEN Conclude(fs, clock, more, FALSE)
        ELSE [files |-> fs, state |-> Awaiting(more, "detail")]

(***************************************************************************)
(* The state machines.  Each leaves the variables of the others at         *)
(* their idle values.                                                      *)
(***************************************************************************)
NoOperation ==
    [op |-> "none", key |-> "", max_age_hours |-> 0, followed |-> "nothing",
     outcome |-> Return(None)]

IdleCache ==
    /\ files = [k \in Keys |-> NoFile]
    /\ now = 0
    /\ pending = [k \in Keys |-> None]
    /\ last = NoOperation

IdleActivities == feed = "core" /\ fetched_activities = <<>> /\ result = NotCalled

IdleBestEfforts == fetched_best_efforts = <<>> /\ effort_result = NotCalled

IdleCalls == latest = NotCalled /\ seen = NotCalled

cacheVars == <<files, now, pending, last>>
activityVars == <<feed, fetched_activities, result>>
effortVars == <<fetched_best_efforts, effort_result>>
callVars == <<latest, seen>>
zoneVars == <<zone_max_hr, zone_result>>
profileVars == <<settings_files, profile_last, by_hand>>

\* The variables of the machines further down, and their idle values.
raceVars == <<updates>>
getVars == <<gets>>
authVars == <<state_store, issued, consumed, auth_last>>
fetchVars == <<fetch>>
formatVars == <<format_seconds, time_formatted>>
handlerVars == <<handler>>
lastVars == <<formatVars, handlerVars>>
laterVars == <<zoneVars, profileVars, raceVars, getVars, authVars, fetchVars, lastVars>>
firstVars == <<cacheVars, activityVars, effortVars, callVars>>
otherThanZones == <<firstVars, profileVars, raceVars, getVars, authVars, fetchVars, lastVars>>
otherThanProfiles == <<firstVars, zoneVars, raceVars, getVars, authVars, fetchVars, lastVars>>
otherThanRace == <<firstVars, zoneVars, profile_last, by_hand, getVars, authVars, fetchVars, lastVars>>
otherThanGets == <<pending, last, activityVars, effortVars, callVars, zoneVars, profileVars,
                   raceVars, authVars, fetchVars, lastVars>>
otherThanAuth == <<firstVars, zoneVars, profileVars, raceVars, getVars, fetchVars, lastVars>>
otherThanFetch == <<firstVars, zoneVars, profileVars, raceVars, getVars, authVars, lastVars>>
otherThanFormat == <<firstVars, zoneVars, profileVars, raceVars, getVars, authVars, fetchVars,
                     handlerVars>>
otherThanHandlers == <<pending, last, activityVars, effortVars, callVars, zoneVars, profileVars,
                       raceVars, getVars, authVars, fetchVars, formatVars>>

Callers == {"a", "b"}

Users == {"101", "102"}

IdleZones == zone_max_hr = 0 /\ zone_result = NotCalled
IdleProfiles ==
    /\ settings_files = [u \in Users |-> NoFile]
    /\ profile_last = NotCalled
    /\ by_hand = [u \in Users |-> NotCalled]
IdleRace == updates = [c \in Callers |-> NotCalled]
IdleGets == gets = [c \in Callers |-> NotCalled]
IdleAuth == state_store = {} /\ issued = {} /\ consumed = {} /\ auth_last = NotCalled
IdleFetch == fetch = NotCalled
IdleFormat == format_seconds = 0 /\ time_formatted = NotCalled
IdleHandlers == handler = NotCalled
IdleLast == IdleFormat /\ IdleHandlers
IdleLater == IdleZones /\ IdleProfiles /\ IdleRace /\ IdleGets /\ IdleAuth /\ IdleFetch /\ IdleLast
IdleFirst == IdleCache /\ IdleActivities /\ IdleBestEfforts /\ IdleCalls

(***************************************************************************)
(* The cache: the endpoints call get, set, delete and clear_all; time      *)
(* passes; and a file can be left with content that set did not write.     *)
(***************************************************************************)
\* What the latest step was: the operation, its arguments, what had last
\* happened to its key, and its outcome.
Operation(op, k, m, followed, outcome) ==
    [op |-> op, key |-> k, max_age_hours |-> m, followed |-> followed,
     outcome |-> outcome]

RemovedExpired == [tag |-> "expired entry removed by get"]
RemovedCorrupt == [tag |-> "corrupt entry removed by get"]

\* What a file holds, as set finds it.
Met(content, clock) ==
    IF content = NoFile THEN "absent"
    ELSE IF \E t \in 0..MaxNow, p \in Payloads :
                content = JsonFile(JsonObject(JsonString(IsoFormat(t)), JsonPayload(p)))
    THEN IF content.doc.cached_at = JsonString(IsoFormat(clock)) THEN "current" ELSE "older"
    ELSE "corrupt"

Followed(p) ==
    IF p = None THEN "nothing"
    ELSE IF p = RemovedExpired THEN "expired get"
    ELSE IF p = RemovedCorrupt THEN "corrupt get"
    ELSE "set"

CacheGet(k, m) ==
    LET r == Get(files, k, m, now)
    IN  /\ files' = r.files
        /\ last' = Operation("get", k, m, Followed(pending[k]), r.outcome)
        /\ pending' = [pending EXCEPT ![k] =
                          IF ~Exists(files, k) THEN None
                          ELSE IF Exists(r.files, k) THEN pending[k]
                          ELSE IF TryGet(files, k, m, now).raised THEN RemovedCorrupt
                          ELSE RemovedExpired]
        /\ UNCHANGED <<now, activityVars, effortVars, callVars, laterVars>>

CacheSet(k, data) ==
    LET r == Set(files, k, data, now)
    IN  /\ files' = r.files
        /\ last' = Operation("set", k, 0, Followed(pending[k]), r.outcome)
        /\ pending' = [pending EXCEPT ![k] =
                          Val([data |-> data, at |-> now, met |-> Met(files[k], now)])]
        /\ UNCHANGED <<now, activityVars, effortVars, callVars, laterVars>>

CacheDelete(k) ==
    LET r == Delete(files, k)
    IN  /\ files' = r.files
        /\ last' = Operation("delete", k, 0, Followed(pending[k]), r.outcome)
        /\ pending' = [pending EXCEPT ![k] = None]
        /\ UNCHANGED <<now, activityVars, effortVars, callVars, laterVars>>

CacheClearAll ==
    LET r == ClearAll(files)
    IN  /\ files' = r.files
        /\ last' = Operation("clear_all", "", 0, "nothing", r.outcome)
        /\ pending' = [k \in Keys |-> None]
        /\ UNCHANGED <<now, activityVars, effortVars, callVars, laterVars>>

Tick ==
    /\ now < MaxNow
    /\ now' = now + 1
    /\ last' = Operation("tick", "", 0, "nothing", Return(None))
    /\ UNCHANGED <<files, pending, activityVars, effortVars, callVars, laterVars>>

\* The contents a file can hold that set never writes: undecodable text, a
\* document that is no object, an object without cached_at, with a
\* cached_at that is no timestamp or no string, or without data.
CorruptContents ==
    {Garbage,
     JsonFile(JsonArray),
     JsonFile(JsonString(<<"o", "k">>)),
     JsonFile(JsonObject(Missing, JsonPayload("week"))),
     JsonFile(JsonObject(JsonString(<<"2024-01-01", "T", "2", "5", ":", "0", "0", ":", "0", "0">>),
                         JsonPayload("week"))),
     JsonFile(JsonObject(JsonNumber(1704067200), JsonPayload("week"))),
     JsonFile(JsonObject(JsonString(IsoFormat(MaxNow)), Missing))}

Corrupt(k, content) ==
    /\ files' = [files EXCEPT ![k] = content]
    /\ last' = Operation("corrupt", "", 0, "nothing", Return(None))
    /\ pending' = [pending EXCEPT ![k] = None]
    /\ UNCHANGED <<now, activityVars, effortVars, callVars, laterVars>>

CacheInit == IdleCache /\ IdleActivities /\ IdleBestEfforts /\ IdleCalls /\ IdleLater

CacheNext ==
    \/ \E k \in Keys, m \in MaxAgeChoices : CacheGet(k, m)
    \/ \E k \in Keys, p \in Payloads : CacheSet(k, JsonPayload(p))
    \/ \E k \in Keys : CacheDelete(k)
    \/ CacheClearAll
    \/ Tick
    \/ \E k \in Keys, content \in CorruptContents : Corrupt(k, content)

SpecCache == CacheInit /\ [][CacheNext]_vars

(***************************************************************************)
(* The derivations: an input is built up from a pool and the operation is  *)
(* called on it once.                                                      *)
(***************************************************************************)
AddActivity(a) ==
    /\ feed \in Feeds
    /\ result = NotCalled
    /\ Len(fetched_activities) < PoolLen(feed)
    /\ fetched_activities' = Append(fetched_activities, a)
    /\ UNCHANGED <<feed, result, cacheVars, effortVars, callVars, laterVars>>

GetPersonalRecords ==
    /\ feed \in Feeds
    /\ result = NotCalled
    /\ result' = CalculatePersonalRecords(fetched_activities)
    /\ UNCHANGED <<feed, fetched_activities, cacheVars, effortVars, callVars, laterVars>>

AddGroup(g) ==
    /\ feed = "best_efforts"
    /\ effort_result = NotCalled
    /\ Len(fetched_best_efforts) < MaxGroups
    /\ fetched_best_efforts' = Append(fetched_best_efforts, g)
    /\ UNCHANGED <<effort_result, cacheVars, activityVars, callVars, laterVars>>

AddEffort(e) ==
    LET n == Len(fetched_best_efforts)
    IN  /\ feed = "best_efforts"
        /\ effort_result = NotCalled
        /\ n > 0
        /\ fetched_best_efforts[n] # None
        /\ Len(fetched_best_efforts[n].v) < MaxGroupLen
        /\ fetched_best_efforts' =
              [fetched_best_efforts EXCEPT ![n] = Val(Append(@.v, e))]
        /\ UNCHANGED <<effort_result, cacheVars, activityVars, callVars, laterVars>>

GetBestEfforts ==
    /\ feed = "best_efforts"
    /\ effort_result = NotCalled
    /\ effort_result' = CalculatePersonalRecordsFromBestEfforts(fetched_best_efforts)
    /\ UNCHANGED <<fetched_best_efforts, cacheVars, activityVars, callVars, laterVars>>

ActivitiesInit ==
    /\ feed \in Feeds
    /\ fetched_activities = <<>>
    /\ result = NotCalled
    /\ IdleCache /\ IdleBestEfforts /\ IdleCalls /\ IdleLater

ActivitiesNext ==
    \/ \E a \in Pool(feed) : AddActivity(a)
    \/ GetPersonalRecords

SpecActivities == ActivitiesInit /\ [][ActivitiesNext]_vars

BestEffortsInit ==
    /\ feed = "best_efforts"
    /\ fetched_activities = <<>>
    /\ result = NotCalled
    /\ IdleCache /\ IdleBestEfforts /\ IdleCalls /\ IdleLater

BestEffortsNext ==
    \/ \E g \in {None, Val(<<>>)} : AddGroup(g)
    \/ \E e \in Efforts : AddEffort(e)
    \/ GetBestEfforts

SpecBestEfforts == BestEffortsInit /\ [][BestEffortsNext]_vars

RecordsInit ==
    /\ feed \in Feeds \cup {"best_efforts"}
    /\ fetched_activities = <<>>
    /\ result = NotCalled
    /\ IdleCache /\ IdleBestEfforts /\ IdleCalls /\ IdleLater

RecordsNext ==
    \/ \E a \in Pool(feed) : AddActivity(a)
    \/ GetPersonalRecords
    \/ \E g \in {None, Val(<<>>)} : AddGroup(g)
    \/ \E e \in Efforts : AddEffort(e)
    \/ GetBestEfforts

SpecRecords == RecordsInit /\ [][RecordsNext]_vars

(***************************************************************************)
(* Calls in sequence on the one service instance, each with its own        *)
(* argument.                                                               *)
(***************************************************************************)
MaxCallLen == 1

SeqsUpTo(S, n) == UNION {[1..m -> S] : m \in 0..n}

\* A slower and a faster 5 km run; one 5k effort.
CallActivities == {a \in CoreActivities : a.id.v \in {1, 2}}
CallEfforts == {e \in Efforts : e.activity_id.v = 11}

CallInputs(op) ==
    IF op = "calculate_personal_records" THEN SeqsUpTo(CallActivities, MaxCallLen)
    ELSE {<<Val(g)>> : g \in SeqsUpTo(CallEfforts, MaxCallLen)}

Operations == {"calculate_personal_records", "calculate_personal_records_from_best_efforts"}

Service(op, input) ==
    IF op = "calculate_personal_records" THEN CalculatePersonalRecords(input)
    ELSE CalculatePersonalRecordsFromBestEfforts(input)

\* A call: neither function assigns to its argument or to a record in it,
\* so the argument is left as it was passed.
Call(op, input) ==
    /\ latest' = [op |-> op, input |-> input, left |-> input,
                  outcome |-> Service(op, input),
                  after |-> IF latest = NotCalled THEN NotCalled
                            ELSE [op |-> latest.op, input |-> latest.input]]
    /\ UNCHANGED <<seen, cacheVars, activityVars, effortVars, laterVars>>

\* The latest call is kept for comparison with the calls that follow.
Remember ==
    /\ latest # NotCalled
    /\ seen' = [op |-> latest.op, input |-> latest.input, outcome |-> latest.outcome]
    /\ UNCHANGED <<latest, cacheVars, activityVars, effortVars, laterVars>>

CallsInit == IdleCalls /\ IdleCache /\ IdleActivities /\ IdleBestEfforts /\ IdleLater

CallsNext ==
    \/ \E op \in Operations : \E input \in CallInputs(op) : Call(op, input)
    \/ Remember

SpecCalls == CallsInit /\ [][CallsNext]_vars

(***************************************************************************)
(* The zone calculator, called on its own.                                 *)
(***************************************************************************)
\* The values of max_hr the calculator is called with: from MaxBelowZero
\* below zero up to MaxHrInput.
MaxHrInput == 220
MaxBelowZero == 30
MaxHrInputs == (0 - MaxBelowZero)..MaxHrInput

\* _calculate_zones(max_hr), on the max_hr the caller holds.
ComputeZones ==
    /\ zone_result = NotCalled
    /\ zone_result' = CalculateZones(zone_max_hr)
    /\ UNCHANGED <<zone_max_hr, otherThanZones>>

ZonesInit ==
    /\ zone_max_hr \in MaxHrInputs
    /\ zone_result = NotCalled
    /\ IdleProfiles /\ IdleRace /\ IdleGets /\ IdleAuth /\ IdleFetch /\ IdleFirst /\ IdleLast

ZonesNext == ComputeZones

SpecZones == ZonesInit /\ [][ZonesNext]_vars

(***************************************************************************)
(* The settings service: one call at a time.                               *)
(***************************************************************************)
MaxHrChoices == {None} \cup {Val(ServiceMaxHrs[i]) : i \in 1..2}
FitnessAgeChoices == {None, Val(30)}
ActualAgeChoices == {None, Val(40)}

\* Zones a caller supplies: made-up ones, and the ones of max_hr 190.
ZoneChoices ==
    {[zone1 |-> Zone(90, 110, "Easy"), zone2 |-> Zone(110, 130, "Steady"),
      zone3 |-> Zone(130, 150, "Tempo"), zone4 |-> Zone(150, 165, "Threshold"),
      zone5 |-> Zone(165, 175, "VO2 Max"), zone6 |-> Zone(175, 185, "Sprint")],
     [zone1 |-> Zone(95, 114, "Recovery"), zone2 |-> Zone(114, 133, "Aerobic"),
      zone3 |-> Zone(133, 152, "Tempo"), zone4 |-> Zone(152, 171, "Threshold"),
      zone5 |-> Zone(171, 180, "VO2 Max"), zone6 |-> Zone(180, 190, "Anaerobic")]}

ProfileCall(op, user_id, max_hr, fitness_age, actual_age, zones, returned) ==
    [op |-> op, user_id |-> user_id, max_hr |-> max_hr, fitness_age |-> fitness_age,
     actual_age |-> actual_age, zones |-> zones, returned |-> returned]

\* GET /api/hr-settings
GetProfile(user_id) ==
    /\ profile_last' = ProfileCall("get_settings", user_id, None, None, None, None,
                                   GetSettings(settings_files, user_id))
    /\ UNCHANGED <<settings_files, by_hand, otherThanProfiles>>

\* POST /api/hr-settings/zones
UpdateZonesManually(user_id, zones) ==
    LET updated == UpdateHrZones(settings_files, user_id, zones)
    IN  /\ settings_files' = updated.store
        /\ profile_last' = ProfileCall("update_hr_zones", user_id, None, None, None, zones,
                                       updated.settings)
        /\ by_hand' = [by_hand EXCEPT ![user_id] = zones]
        /\ UNCHANGED otherThanProfiles

\* POST /api/hr-settings/params
UpdateParameters(user_id, max_hr, fitness_age, actual_age) ==
    LET updated == UpdateHrParams(settings_files, user_id, max_hr, fitness_age, actual_age)
    IN  /\ settings_files' = updated.store
        /\ profile_last' = ProfileCall("update_hr_params", user_id, max_hr, fitness_age,
                                       actual_age, None, updated.settings)
        /\ by_hand' = [by_hand EXCEPT ![user_id] = NotCalled]
        /\ UNCHANGED otherThanProfiles

ProfilesInit ==
    IdleProfiles /\ IdleZones /\ IdleRace /\ IdleGets /\ IdleAuth /\ IdleFetch /\ IdleFirst
    /\ IdleLast

ProfilesNext ==
    \E user_id \in Users :
        \/ GetProfile(user_id)
        \/ \E zones \in ZoneChoices : UpdateZonesManually(user_id, zones)
        \/ \E max_hr \in MaxHrChoices, fitness_age \in FitnessAgeChoices,
              actual_age \in ActualAgeChoices :
                UpdateParameters(user_id, max_hr, fitness_age, actual_age)

SpecProfiles == ProfilesInit /\ [][ProfilesNext]_vars

(***************************************************************************)
(* The settings service under concurrent callers: get_settings and         *)
(* save_settings of one update are two steps, and another caller's steps   *)
(* may fall between them.                                                  *)
(***************************************************************************)
MaxUpdates == 1

RaceMaxHrChoices == {None, Val(ServiceMaxHrs[2])}

\* The update a caller is in: its arguments, the settings get_settings
\* returned to it, whether save_settings has run, and how many updates the
\* caller has made.
Update(op, user_id, max_hr, fitness_age, actual_age, zones, read, saved, count) ==
    [op |-> op, user_id |-> user_id, max_hr |-> max_hr, fitness_age |-> fitness_age,
     actual_age |-> actual_age, zones |-> zones, read |-> read, saved |-> saved,
     count |-> count]

Count(caller) == IF updates[caller] = NotCalled THEN 0 ELSE updates[caller].count

\* No update of the caller is between its two steps.
AtRest(caller) == IF updates[caller] = NotCalled THEN TRUE ELSE updates[caller].saved

\* update_hr_zones up to settings = self.get_settings(user_id)
ReadForZones(caller, user_id, zones) ==
    /\ AtRest(caller)
    /\ Count(caller) < MaxUpdates
    /\ updates' = [updates EXCEPT ![caller] =
                      Update("update_hr_zones", user_id, None, None, None, zones,
                             GetSettings(settings_files, user_id), FALSE,
                             Count(caller) + 1)]
    /\ UNCHANGED <<settings_files, otherThanRace>>

\* update_hr_params up to settings = self.get_settings(user_id)
ReadForParams(caller, user_id, max_hr, fitness_age, actual_age) ==
    /\ AtRest(caller)
    /\ Count(caller) < MaxUpdates
    /\ updates' = [updates EXCEPT ![caller] =
                      Update("update_hr_params", user_id, max_hr, fitness_age, actual_age,
                             None, GetSettings(settings_files, user_id), FALSE,
                             Count(caller) + 1)]
    /\ UNCHANGED <<settings_files, otherThanRace>>

\* The settings the update saves: the ones it read, changed.
Changed(update) ==
    IF update.op = "update_hr_zones"
    THEN [update.read EXCEPT !.hr_zones = update.zones]
    ELSE WithParams(update.read, update.max_hr, update.fitness_age, update.actual_age)

\* An update that changes the settings the file holds when it saves.
SavedUnderLock(store, update) ==
    SaveSettings(store, update.user_id,
                 Changed([update EXCEPT !.read = GetSettings(store, update.user_id)]))

\* The rest of the update: the store self.save_settings(user_id, settings) leaves.
Saved(store, update) == SaveSettings(store, update.user_id, Changed(update))

Save(caller) ==
    /\ ~AtRest(caller)
    /\ settings_files' = Saved(settings_files, updates[caller])
    /\ updates' = [updates EXCEPT ![caller].saved = TRUE]
    /\ UNCHANGED otherThanRace

RaceInit ==
    IdleRace /\ IdleProfiles /\ IdleZones /\ IdleGets /\ IdleAuth /\ IdleFetch /\ IdleFirst
    /\ IdleLast

RaceNext ==
    \E caller \in Callers :
        \/ \E user_id \in Users :
              \/ \E zones \in ZoneChoices : ReadForZones(caller, user_id, zones)
              \/ \E max_hr \in RaceMaxHrChoices, fitness_age \in FitnessAgeChoices,
                    actual_age \in ActualAgeChoices :
                      ReadForParams(caller, user_id, max_hr, fitness_age, actual_age)
        \/ Save(caller)

SpecProfileRace == RaceInit /\ [][RaceNext]_vars

(***************************************************************************)
(* The cache under concurrent callers: the read of an expired entry and    *)
(* its unlink are two steps of get, and another caller's set or get may    *)
(* fall between them.                                                      *)
(***************************************************************************)
InFlight == [tag |-> "in flight"]

\* The key the callers contend for, and how far the clock runs.
SharedKeys == {"activities_1"}
MaxRaceNow == 3

\* A get of a caller: its arguments, the file content it read, the content
\* its unlink removed, and its outcome once it has returned or raised.
GetCall(key, max_age_hours, read, removed, outcome) ==
    [key |-> key, max_age_hours |-> max_age_hours, read |-> read, removed |-> removed,
     outcome |-> outcome]

Unlinking(caller) == IF gets[caller] = NotCalled THEN FALSE ELSE gets[caller].outcome = InFlight

\* get finds an entry it can read and datetime.now() > expires_at.
ReadsExpired(fs, key, max_age_hours, clock) ==
    IF ~Exists(fs, key) THEN FALSE
    ELSE IF TryGet(fs, key, max_age_hours, clock).raised THEN FALSE
    ELSE ~Exists(TryGet(fs, key, max_age_hours, clock).value.files, key)

\* get up to the expiry test: on an expired entry the call goes on to the
\* unlink, on anything else it is over.
GetRead(caller, key, max_age_hours) ==
    /\ ~Unlinking(caller)
    /\ IF ReadsExpired(files, key, max_age_hours, now)
       THEN /\ gets' = [gets EXCEPT ![caller] =
                           GetCall(key, max_age_hours, files[key], NoFile, InFlight)]
            /\ UNCHANGED files
       ELSE /\ gets' = [gets EXCEPT ![caller] =
                           GetCall(key, max_age_hours, files[key], NoFile,
                                   Get(files, key, max_age_hours, now).outcome)]
            /\ files' = Get(files, key, max_age_hours, now).files
    /\ UNCHANGED <<now, otherThanGets>>

\* An unlink that spares a file written since the get read it.
ExpiryDeleteIfUnchanged(fs, get) ==
    IF fs[get.key] = get.read THEN Unlink(fs, get.key) ELSE Return(fs)

\* cache_path.unlink() of the get: whatever the file holds by now goes.
ExpiryDelete(fs, get) == Unlink(fs, get.key)

\* The rest of a get that read an expired entry.
GetUnlink(caller) ==
    /\ Unlinking(caller)
    /\ LET unlinked == ExpiryDelete(files, gets[caller])
       IN  IF unlinked.raised
           THEN /\ gets' = [gets EXCEPT ![caller].outcome = unlinked]
                /\ UNCHANGED files
           ELSE /\ gets' = [gets EXCEPT ![caller].outcome = Return(None),
                                        ![caller].removed = files[gets[caller].key]]
                /\ files' = unlinked.value
    /\ UNCHANGED <<now, otherThanGets>>

\* set(key, data) of any caller, from start to end.
SetBetween(key, data) ==
    /\ files' = Set(files, key, data, now).files
    /\ UNCHANGED <<now, gets, otherThanGets>>

Pass ==
    /\ now < MaxRaceNow
    /\ now' = now + 1
    /\ UNCHANGED <<files, gets, otherThanGets>>

GetsInit ==
    IdleGets /\ IdleFirst /\ IdleZones /\ IdleProfiles /\ IdleRace /\ IdleAuth /\ IdleFetch
    /\ IdleLast

GetsNext ==
    \/ \E caller \in Callers :
          \/ \E key \in SharedKeys, max_age_hours \in MaxAgeChoices :
                GetRead(caller, key, max_age_hours)
          \/ GetUnlink(caller)
    \/ \E key \in SharedKeys, data \in Payloads : SetBetween(key, JsonPayload(data))
    \/ Pass

SpecCacheRace == GetsInit /\ [][GetsNext]_vars

(***************************************************************************)
(* The auth router: logins and callbacks, one request at a time (callback  *)
(* does not await between its test of the state and the del).              *)
(***************************************************************************)
MaxTokens == 2

\* The parameters a callback request can carry: absent, empty, or a value.
Codes == {None, Val(<<>>), Val(<<"c0de">>)}
Errors == {None, Val(<<>>), Val(<<"access_denied">>)}
States == {None, Val(<<>>), Val(<<"forged">>)} \cup {Val(TokenUrlsafe(i)) : i \in 1..MaxTokens}
TokenStatuses == {200, 400, 401}

AuthRequest(op, code, state, error, response) ==
    [op |-> op, code |-> code, state |-> state, error |-> error, response |-> response]

\* GET /auth/login: the token is one never generated before.
Login ==
    /\ Cardinality(issued) < MaxTokens
    /\ LET state == TokenUrlsafe(Cardinality(issued) + 1)
       IN  /\ state_store' = state_store \cup {state}
           /\ issued' = issued \cup {state}
           /\ auth_last' = AuthRequest("login", None, Val(state), None,
                                       Response(307, "RedirectResponse", FALSE, FALSE))
    /\ UNCHANGED <<consumed, otherThanAuth>>

\* GET /auth/callback
Callback(code, state, error, token_status) ==
    LET outcome == CallbackOutcome(state_store, code, state, error, token_status)
    IN  /\ state_store' = outcome.store
        /\ consumed' = IF outcome.response.verified THEN consumed \cup {state.v} ELSE consumed
        /\ auth_last' = AuthRequest("callback", code, state, error, outcome.response)
        /\ UNCHANGED <<issued, otherThanAuth>>

AuthInit ==
    IdleAuth /\ IdleFirst /\ IdleZones /\ IdleProfiles /\ IdleRace /\ IdleGets /\ IdleFetch
    /\ IdleLast

AuthNext ==
    \/ Login
    \/ \E code \in Codes, state \in States, error \in Errors, token_status \in TokenStatuses :
          Callback(code, state, error, token_status)

SpecAuth == AuthInit /\ [][AuthNext]_vars

(***************************************************************************)
(* get_activities from the start of its loop: every page request is        *)
(* answered, with some status and some body.                               *)
(***************************************************************************)
StatusCodes == {200, 429, 500}
Bodies == {Batch(0), Batch(1), Batch(per_page), FalseScalar, TrueScalar, NotJson}

Running == fetch.returned = None

\* response = await client.get(...), and the turn of the loop it starts.
Respond(status_code, body) ==
    /\ Running
    /\ fetch' = Turn(fetch, status_code, body)
    /\ UNCHANGED otherThanFetch

FetchInit ==
    /\ fetch = Fetching(1, 0, 0, 0)
    /\ IdleFirst /\ IdleZones /\ IdleProfiles /\ IdleRace /\ IdleGets /\ IdleAuth /\ IdleLast

FetchNext == \E status_code \in StatusCodes, body \in Bodies : Respond(status_code, body)

SpecFetch == FetchInit /\ [][FetchNext]_vars

\* Each request gets a response.
SpecFetchAnswered == SpecFetch /\ WF_vars(FetchNext)

(***************************************************************************)
(* _format_time on its own: the seconds are drawn at the start, one step   *)
(* renders them.                                                           *)
(***************************************************************************)
MaxSeconds == 3700

\* Hours of one, two, three and four digits.
HourChoices == {1, 9, 10, 99, 100, 1000}

\* Minutes and seconds on both sides of the padding.
UnitChoices == {0, 9, 10, 59}

SecondsInputs ==
    (0..MaxSeconds)
        \cup {h * 3600 + m * 60 + s_ : h \in HourChoices, m \in UnitChoices, s_ \in UnitChoices}

FormatInit ==
    /\ format_seconds \in SecondsInputs
    /\ time_formatted = NotCalled
    /\ IdleFirst /\ IdleZones /\ IdleProfiles /\ IdleRace /\ IdleGets /\ IdleAuth /\ IdleFetch
    /\ IdleHandlers

Format ==
    /\ time_formatted = NotCalled
    /\ time_formatted' = Val(FormatTime(format_seconds))
    /\ UNCHANGED <<format_seconds, otherThanFormat>>

FormatNext == Format

SpecFormat == FormatInit /\ [][FormatNext]_vars

(***************************************************************************)
(* The endpoints: one request at a time is handled, Strava answers each    *)
(* request of the handler, and time passes in between.                     *)
(***************************************************************************)
MaxWaits == 3

\* The clock advances by a tick or by a tick less than 24 hours.
LongWait == best_efforts_max_age_hours * TicksPerHour - 1
WaitChoices == {1, LongWait}

\* How often the clock has advanced.
Waits(clock) == (clock \div LongWait) + (clock % LongWait)

PageBodies == {Batch(0), Batch(per_page), NotJson}
ListBodies ==
    {Listing(<<>>), Listing(<<"Run">>),
     Listing(<<"Run", "Ride">> \o [i \in 1..(MaxListed - 1) |-> "Run"]), NotJson}
DetailBodies ==
    {Detail(Missing), NotJson} \cup {Detail(DetailLists[i]) : i \in 1..Len(DetailLists)}

\* The handler is at an await.
Pending(what) ==
    IF handler = NotCalled THEN FALSE
    ELSE handler.response = None /\ handler.awaiting = what

\* No request is being handled.
Free == IF handler = NotCalled THEN TRUE ELSE handler.response # None

\* A request arrives and is handled up to the first await or the return.
\* The requests of a behaviour all go to the endpoint of the first.
Arrive(endpoint, refresh, access_token) ==
    LET entered == Enter(files, now, endpoint, refresh, access_token,
                         IF handler = NotCalled THEN FALSE ELSE handler.partial)
    IN  /\ Free
        /\ IF handler = NotCalled THEN TRUE ELSE handler.endpoint = endpoint
        /\ files' = entered.files
        /\ handler' = entered.state
        /\ UNCHANGED <<now, otherThanHandlers>>

\* Strava answers a list request.
AnswerList(status_code, body) ==
    LET answered == IF handler.endpoint = "get_activities"
                    THEN ActivitiesAnswer(files, now, handler, status_code, body)
                    ELSE ListAnswer(files, now, handler, status_code, body)
    IN  /\ Pending("list")
        /\ body \in (IF handler.endpoint = "get_activities" THEN PageBodies ELSE ListBodies)
        /\ files' = answered.files
        /\ handler' = answered.state
        /\ UNCHANGED <<now, otherThanHandlers>>

\* Strava answers a detail request.
AnswerDetail(status_code, body) ==
    LET answered == DetailAnswer(files, now, handler, status_code, body)
    IN  /\ Pending("detail")
        /\ files' = answered.files
        /\ handler' = answered.state
        /\ UNCHANGED <<now, otherThanHandlers>>

Wait(ticks) ==
    /\ Waits(now) < MaxWaits
    /\ now + ticks <= LastTick
    /\ now' = now + ticks
    /\ UNCHANGED <<files, handler, otherThanHandlers>>

HandlersInit ==
    /\ IdleFirst /\ IdleZones /\ IdleProfiles /\ IdleRace /\ IdleGets /\ IdleAuth /\ IdleFetch
    /\ IdleLast

HandlersNext ==
    \/ \E endpoint \in Endpoints, refresh \in BOOLEAN, access_token \in BOOLEAN :
           Arrive(endpoint, refresh, access_token)
    \/ \E status_code \in StatusCodes, body \in PageBodies \cup ListBodies :
           AnswerList(status_code, body)
    \/ \E status_code \in StatusCodes, body \in DetailBodies : AnswerDetail(status_code, body)
    \/ \E ticks \in WaitChoices : Wait(ticks)

SpecHandlers == HandlersInit /\ [][HandlersNext]_vars

(***************************************************************************)
(* Properties of the cache.                                                *)
(***************************************************************************)
\* An entry as set writes it: an object with a parseable cached_at string
\* and a data member.
WellFormed(content) ==
    /\ content.kind = "json"
    /\ content.doc.type = "object"
    /\ content.doc.cached_at # Missing
    /\ ~FromIsoFormat(content.doc.cached_at).raised
    /\ content.doc.data # Missing

CachedAt(content) == FromIsoFormat(content.doc.cached_at).value

Corrupted(content) == content # NoFile /\ ~WellFormed(content)

\* The step is the operation op, and last' describes it.
Did(op) == last'.op = op

\* C1: get on an existing well-formed entry returns the stored payload and
\* keeps the store exactly when now - cached_at <= max_age_hours hours, the
\* boundary instant included; otherwise it returns None and the entry is
\* gone when the call ends.
C1_FreshIffWithinMaxAge ==
    [][Did("get") /\ WellFormed(files[last'.key]) =>
          LET k == last'.key
          IN  IF now - CachedAt(files[k]) <= last'.max_age_hours * TicksPerHour
              THEN last'.outcome = Return(Loaded(files[k].doc.data)) /\ files' = files
              ELSE last'.outcome = Return(None)
                   /\ files' = [files EXCEPT ![k] = NoFile]]_vars

\* A get at exactly the boundary instant has returned the payload.
C1_Witness ==
    /\ last.op = "get"
    /\ WellFormed(files[last.key])
    /\ now - CachedAt(files[last.key]) = last.max_age_hours * TicksPerHour
    /\ last.outcome = Return(Val(files[last.key].doc.data))

IsSet(p) == p \notin {None, RemovedExpired, RemovedCorrupt}

\* C2: whatever set(key, v) found under the key, a get(key, m) that follows
\* it with no write, delete or corruption of the key in between, at most m
\* hours after that set, returns exactly v: the age is counted from the
\* latest set.
C2_SetOverwritesAndRestamps ==
    [][(/\ Did("get")
        /\ IsSet(pending[last'.key])
        /\ now - pending[last'.key].v.at <= last'.max_age_hours * TicksPerHour)
       => /\ last'.outcome = Return(Val(pending[last'.key].v.data))
          /\ files' = files]_vars

\* A get has returned the value of a set that replaced an older entry,
\* m hours to the tick after that set.
C2_Witness ==
    /\ last.op = "get"
    /\ last.followed = "set"
    /\ IsSet(pending[last.key])
    /\ pending[last.key].v.met = "older"
    /\ now - pending[last.key].v.at = last.max_age_hours * TicksPerHour
    /\ last.outcome = Return(Val(pending[last.key].v.data))

\* C3 (as claimed): get on a corrupt entry of any kind returns None and
\* deletes the entry.
C3_CorruptGetIsMiss ==
    [][Did("get") /\ Corrupted(files[last'.key]) =>
          /\ last'.outcome = Return(None)
          /\ files' = [files EXCEPT ![last'.key] = NoFile]]_vars

\* C4: delete and clear_all never raise and are idempotent; delete removes
\* its key only and is a no-op on an absent key; after clear_all every get
\* returns None.
C4_DeleteClearIdempotent ==
    [][/\ Did("delete") =>
             /\ last'.outcome = Return(None)
             /\ files' = [files EXCEPT ![last'.key] = NoFile]
             /\ Delete(files', last'.key) = [outcome |-> Return(None), files |-> files']
       /\ Did("clear_all") =>
             /\ last'.outcome = Return(None)
             /\ ClearAll(files') = [outcome |-> Return(None), files |-> files']
             /\ \A k \in Keys, m \in MaxAgeChoices :
                    Get(files', k, m, now) = [outcome |-> Return(None), files |-> files']]_vars

\* A delete has run on a key that an expired get had just removed.
C4_Witness ==
    /\ last.op = "delete"
    /\ last.followed = "expired get"
    /\ last.outcome = Return(None)
    /\ ~Exists(files, last.key)

(***************************************************************************)
(* Properties of the derivations.                                          *)
(***************************************************************************)
Present(x) == x # None /\ x # Missing

Min(S) == CHOOSE x \in S : \A y \in S : x <= y

\* The activity qualifies for the key: a Run with a distance d such that
\* |d - target| <= target / 50 in exact arithmetic and a moving time > 0.
Qualifies(a, k) ==
    /\ a.type = Val("Run")
    /\ Present(a.distance)
    /\ BigLeq(BigScale(BigAbsDiff(a.distance.v, DISTANCES[k]), 50), DISTANCES[k])
    /\ Present(a.moving_time)
    /\ a.moving_time.v > 0

Qualifying(activities, k) ==
    {i \in 1..Len(activities) : Qualifies(activities[i], k)}

\* C5 (as claimed): for every list and key the call returns a record for
\* the key exactly when some activity qualifies, and its time_seconds is
\* the least moving time of the qualifying activities.
C5_RecordIffQualifying ==
    result # NotCalled =>
        /\ ~result.raised
        /\ \A k \in DistanceKeys :
              LET q == Qualifying(fetched_activities, k)
              IN  IF q = {} THEN result.value[k] = None
                  ELSE /\ result.value[k] # None
                       /\ result.value[k].v.time_seconds =
                             Min({fetched_activities[i].moving_time.v : i \in q})

\* The orders the list can be given in.
Reorderings(activities) ==
    {[i \in 1..Len(activities) |-> activities[p[i]]] :
        p \in Permutations(1..Len(activities))}

\* Two qualifying activities at different places share the least moving
\* time of the key.
Tie(activities, k) ==
    LET q == Qualifying(activities, k)
    IN  \E i, j \in q :
           /\ i # j
           /\ activities[i].moving_time.v = activities[j].moving_time.v
           /\ \A h \in q : activities[i].moving_time.v <= activities[h].moving_time.v

SameTime(x, y) ==
    /\ x = None <=> y = None
    /\ x # None => /\ x.v.time_seconds = y.v.time_seconds
                   /\ x.v.time_formatted = y.v.time_formatted

C7_BoundaryInclusive ==
    (feed = "edge" /\ result # NotCalled) =>
        /\ ~result.raised
        /\ \A k \in DistanceKeys :
              LET has(f) == \E i \in 1..Len(fetched_activities) :
                                fetched_activities[i] = EdgeRun(k, f)
              IN  /\ (has("1.02") \/ has("0.98")) => result.value[k] # None
                  /\ (has("1.021") /\ ~has("1.02") /\ ~has("0.98"))
                        => result.value[k] = None

\* C8 (as claimed): neither derivation raises, whatever field of a record
\* is missing, zero or null.
C8_NeverRaises ==
    /\ result # NotCalled => ~result.raised
    /\ effort_result # NotCalled => ~effort_result.raised

\* The effort counts for the key: its name maps to the key and its moving
\* time is there and > 0.
Counts(effort, k) ==
    /\ Present(effort.name)
    /\ DISTANCE_MAPPING(effort.name) = Val(k)
    /\ Present(effort.moving_time)
    /\ effort.moving_time.v > 0

\* C9 (as claimed): for every sequence of groups and every key the call
\* returns the record of the least moving time of the flattened efforts
\* that count for the key, None when there is none, and the same as for
\* the efforts in one group.
C9_MinOverFlattened ==
    effort_result # NotCalled =>
        LET all == Flatten(fetched_best_efforts)
        IN  /\ ~effort_result.raised
            /\ effort_result = CalculatePersonalRecordsFromBestEfforts(<<Val(all)>>)
            /\ \A k \in DistanceKeys :
                  LET q == {i \in 1..Len(all) : Counts(all[i], k)}
                  IN  IF q = {} THEN effort_result.value[k] = None
                      ELSE /\ effort_result.value[k] # None
                           /\ effort_result.value[k].v.time_seconds =
                                 Min({all[i].moving_time.v : i \in q})

FloorOf(max_hr, percent) == (max_hr * percent) \div 100

FloorZones(max_hr) ==
    [zone1 |-> Zone(FloorOf(max_hr, 50), FloorOf(max_hr, 60), "Recovery"),
     zone2 |-> Zone(FloorOf(max_hr, 60), FloorOf(max_hr, 70), "Aerobic"),
     zone3 |-> Zone(FloorOf(max_hr, 70), FloorOf(max_hr, 80), "Tempo"),
     zone4 |-> Zone(FloorOf(max_hr, 80), FloorOf(max_hr, 90), "Threshold"),
     zone5 |-> Zone(FloorOf(max_hr, 90), FloorOf(max_hr, 95), "VO2 Max"),
     zone6 |-> Zone(FloorOf(max_hr, 95), max_hr, "Anaerobic")]

\* C11: for every integer max_hr, zero and negative ones included, the
\* calculator returns the six zones Recovery, Aerobic, Tempo, Threshold,
\* VO2 Max and Anaerobic whose bounds are the floors of 50, 60, 70, 80, 90
\* and 95 percent of max_hr, the last zone ending at max_hr itself.
C11_ZonesAreFloors ==
    zone_result # NotCalled => zone_result = FloorZones(zone_max_hr)

\* The part of C11 the code does meet: at 200 the zones run from 100..120
\* (Recovery) to 190..200 (Anaerobic).
C11_ZonesOf200 ==
    (zone_result # NotCalled /\ zone_max_hr = 200) =>
        /\ zone_result.zone1 = Zone(100, 120, "Recovery")
        /\ zone_result.zone6 = Zone(190, 200, "Anaerobic")

\* The profile a get_settings call would return now.
Profile(user_id) == GetSettings(settings_files, user_id)

Consistent(settings) == settings.hr_zones = ZonesOf(settings.max_hr.v)

\* C12: after every update_hr_params call, whichever arguments were given
\* and whatever the profile was before, the profile the next get_settings
\* returns is the persisted one and its hr_zones are _calculate_zones of
\* its max_hr.
C12_ParamsRecomputeZones ==
    (profile_last # NotCalled /\ profile_last.op = "update_hr_params") =>
        /\ settings_files[profile_last.user_id] # NoFile
        /\ Consistent(Profile(profile_last.user_id))
        /\ profile_last.max_hr # None =>
               Profile(profile_last.user_id).hr_zones = ZonesOf(profile_last.max_hr.v)

\* update_hr_params(u, max_hr = 180): the profile shows the zones of 180.
C12_Witness ==
    /\ profile_last # NotCalled
    /\ profile_last.op = "update_hr_params"
    /\ profile_last.max_hr = Val(180)
    /\ Profile(profile_last.user_id).hr_zones.zone3 = Zone(125, 144, "Tempo")

\* C13 as stated: in every state the calls on the service reach, each
\* profile's hr_zones are _calculate_zones of its max_hr.
C13_ZonesNeverDrift == \A user_id \in Users : Consistent(Profile(user_id))

\* C13: a profile's hr_zones are _calculate_zones of its max_hr unless the
\* user's latest update was update_hr_zones; then they are the zones that
\* call supplied, until the next update_hr_params of the user.
C13_ZonesDriftOnlyByHand ==
    \A user_id \in Users :
        IF by_hand[user_id] = NotCalled THEN Consistent(Profile(user_id))
        ELSE Profile(user_id).hr_zones = by_hand[user_id]

\* One user's zones set by hand and apart from max_hr, another user's
\* profile persisted by update_hr_params.
C13_Witness ==
    \E user_id, other \in Users :
        /\ by_hand[user_id] # NotCalled
        /\ ~Consistent(Profile(user_id))
        /\ by_hand[other] = NotCalled
        /\ settings_files[other] # NoFile

\* The step is the call op on the settings service.
DidProfile(op) == profile_last'.op = op

\* C14: get_settings never changes the store; for a user with no file it
\* returns the default (max_hr 190, the zones of 190, no ages) and the user
\* still has no file; a file appears only through update_hr_zones or
\* update_hr_params of that user.
C14_GetLeavesStore ==
    [][/\ DidProfile("get_settings") =>
            /\ settings_files' = settings_files
            /\ settings_files[profile_last'.user_id] = NoFile =>
                   /\ profile_last'.returned =
                          [max_hr |-> Val(190), fitness_age |-> None,
                           actual_age |-> None, hr_zones |-> ZonesOf(190)]
                   /\ settings_files'[profile_last'.user_id] = NoFile
       /\ \A user_id \in Users :
              (settings_files[user_id] = NoFile /\ settings_files'[user_id] # NoFile) =>
                  /\ profile_last'.op \in {"update_hr_zones", "update_hr_params"}
                  /\ profile_last'.user_id = user_id]_vars

\* get_settings on a user with no file, after another user got one: the
\* default comes back.
C14_Witness ==
    /\ profile_last # NotCalled
    /\ profile_last.op = "get_settings"
    /\ settings_files[profile_last.user_id] = NoFile
    /\ profile_last.returned.max_hr = Val(190)
    /\ \E other \in Users : settings_files[other] # NoFile

ParamKeys == {"max_hr", "fitness_age", "actual_age"}

\* C15: update_hr_params sets each of max_hr, fitness_age, actual_age whose
\* argument is given to that argument, leaves each of the three whose
\* argument is absent at the value get_settings showed before (the default
\* for a user with no file), and leaves every other user's file alone.
C15_ParamsChangeOnlyGiven ==
    [][DidProfile("update_hr_params") =>
          /\ \A key \in ParamKeys :
                 settings_files'[profile_last'.user_id].doc[key] =
                     IF profile_last'[key] # None THEN profile_last'[key]
                     ELSE GetSettings(settings_files, profile_last'.user_id)[key]
          /\ \A other \in Users \ {profile_last'.user_id} :
                 settings_files'[other] = settings_files[other]]_vars

\* update_hr_params with max_hr alone on a profile that has a fitness_age,
\* another user holding a profile too.
C15_Witness ==
    /\ profile_last # NotCalled
    /\ profile_last.op = "update_hr_params"
    /\ profile_last.max_hr # None
    /\ profile_last.fitness_age = None
    /\ Profile(profile_last.user_id).fitness_age = Val(30)
    /\ \E other \in Users \ {profile_last.user_id} : settings_files[other] # NoFile

\* C16: update_hr_zones stores the zones it is given as hr_zones, whatever
\* max_hr is, and leaves max_hr, fitness_age and actual_age as get_settings
\* showed them; for a user with no file it persists the default (max_hr 190,
\* no ages) with the given zones.
C16_ZonesStoredVerbatim ==
    [][DidProfile("update_hr_zones") =>
          /\ settings_files'[profile_last'.user_id].doc.hr_zones = profile_last'.zones
          /\ \A key \in ParamKeys :
                 settings_files'[profile_last'.user_id].doc[key] =
                     GetSettings(settings_files, profile_last'.user_id)[key]
          /\ settings_files[profile_last'.user_id] = NoFile =>
                 settings_files'[profile_last'.user_id].doc =
                     [max_hr |-> Val(190), fitness_age |-> None, actual_age |-> None,
                      hr_zones |-> profile_last'.zones]
          /\ \A other \in Users \ {profile_last'.user_id} :
                 settings_files'[other] = settings_files[other]]_vars

\* update_hr_zones on a profile with max_hr 180: the stored zones are the
\* given ones, not those of 180.
C16_Witness ==
    /\ profile_last # NotCalled
    /\ profile_last.op = "update_hr_zones"
    /\ Profile(profile_last.user_id).max_hr = Val(180)
    /\ Profile(profile_last.user_id).hr_zones = profile_last.zones
    /\ ~Consistent(Profile(profile_last.user_id))

\* The step is the save of the caller's update.
DidSave(caller) == ~AtRest(caller) /\ updates'[caller].saved

\* The store the update would leave as one uninterrupted call.
Uninterrupted(store, update) ==
    IF update.op = "update_hr_zones"
    THEN UpdateHrZones(store, update.user_id, update.zones).store
    ELSE UpdateHrParams(store, update.user_id, update.max_hr, update.fitness_age,
                        update.actual_age).store

\* C17: an update saves its change on top of the settings it read, with no
\* regard to what the file holds by then: each of max_hr, fitness_age and
\* actual_age it was not given goes back to the value read, so a change
\* another caller saved to the same user in between is lost; when the file
\* still holds what was read the update leaves what the uninterrupted call
\* would; the files of other users are never touched.
C17_SaveOverwritesWithWhatWasRead ==
    [][\A caller \in Callers :
          DidSave(caller) =>
              /\ \A key \in ParamKeys :
                     settings_files'[updates[caller].user_id].doc[key] =
                         IF updates[caller][key] # None THEN updates[caller][key]
                         ELSE updates[caller].read[key]
              /\ updates[caller].op = "update_hr_zones" =>
                     settings_files'[updates[caller].user_id].doc.hr_zones =
                         updates[caller].zones
              /\ updates[caller].read = GetSettings(settings_files, updates[caller].user_id) =>
                     settings_files' = Uninterrupted(settings_files, updates[caller])
              /\ \A other \in Users \ {updates[caller].user_id} :
                     settings_files'[other] = settings_files[other]]_vars

\* A lost update: caller a set fitness_age, caller b set actual_age on the
\* same user, both have saved, and the profile has no fitness_age.
C17_Witness ==
    /\ updates["a"] # NotCalled /\ updates["b"] # NotCalled
    /\ updates["a"].saved /\ updates["b"].saved
    /\ updates["a"].user_id = updates["b"].user_id
    /\ updates["a"].op = "update_hr_params" /\ updates["b"].op = "update_hr_params"
    /\ updates["a"].fitness_age = Val(30) /\ updates["a"].actual_age = None
    /\ updates["b"].fitness_age = None /\ updates["b"].actual_age = Val(40)
    /\ Profile(updates["a"].user_id).fitness_age = None
    /\ Profile(updates["a"].user_id).actual_age = Val(40)

(***************************************************************************)
(* Properties of the cache under concurrent callers.                       *)
(***************************************************************************)
\* The step is the unlink of the caller's get.
DidUnlink(caller) == Unlinking(caller) /\ gets'[caller].outcome # InFlight

\* C18: the unlink of a get that read an expired entry removes whatever the
\* file holds by then: an entry a set wrote since the read goes as well, the
\* get returns None, and a get of the key that follows returns None for
\* every max_age_hours.  (When the file is gone by then the unlink raises.)
C18_ExpiryDeleteRemovesFreshEntry ==
    [][\A caller \in Callers :
          DidUnlink(caller) =>
              /\ ReadsExpired([files EXCEPT ![gets[caller].key] = gets[caller].read],
                              gets[caller].key, gets[caller].max_age_hours, now)
              /\ IF Exists(files, gets[caller].key)
                 THEN /\ files' = [files EXCEPT ![gets[caller].key] = NoFile]
                      /\ gets'[caller].removed = files[gets[caller].key]
                      /\ gets'[caller].outcome = Return(None)
                      /\ \A max_age_hours \in MaxAgeChoices :
                             Get(files', gets[caller].key, max_age_hours, now').outcome =
                                 Return(None)
                 ELSE /\ files' = files
                      /\ gets'[caller].outcome = Raise("FileNotFoundError")]_vars

\* A get has removed an entry other than the one it read: one a set wrote at
\* the present instant, which is now absent.
C18_Witness ==
    \E caller \in Callers :
        /\ gets[caller] # NotCalled
        /\ gets[caller].outcome = Return(None)
        /\ gets[caller].removed # NoFile
        /\ gets[caller].removed # gets[caller].read
        /\ CachedAt(gets[caller].removed) = now
        /\ ~Exists(files, gets[caller].key)

(***************************************************************************)
(* Properties of the auth router.                                          *)
(***************************************************************************)
\* The step is the request op to the auth router.
DidAuth(op) == auth_last'.op = op

\* The state parameter is no token that is still to be used: it is missing,
\* was never issued, or was consumed by an earlier callback.
NotUsable(state) ==
    IF state = None THEN TRUE ELSE state.v \notin issued \/ state.v \in consumed

\* What a callback step does with the state, carries_error telling whether
\* the request counts as carrying an error parameter.
StateUse(carries_error) ==
    DidAuth("callback") =>
        /\ auth_last'.response.verified =>
               /\ auth_last'.state.v \in issued
               /\ auth_last'.state.v \notin consumed
               /\ state_store' = state_store \ {auth_last'.state.v}
               /\ auth_last'.state.v \notin state_store'
        /\ NotUsable(auth_last'.state) =>
               /\ auth_last'.response.status_code = 400
               /\ ~auth_last'.response.verified
               /\ ~auth_last'.response.exchanged
               /\ state_store' = state_store
        /\ carries_error =>
               /\ auth_last'.response.status_code = 400
               /\ ~auth_last'.response.verified
               /\ ~auth_last'.response.exchanged
               /\ state_store' = state_store
        /\ auth_last'.response.exchanged =>
               auth_last'.response.verified /\ Truthy(auth_last'.code)

\* C19 as stated: a state token passes verification at most once, being
\* removed as soon as it does, code or no code; a callback whose state is
\* missing, never issued or consumed gets 400 and no token request; and a
\* callback with an error parameter, whatever its value, is rejected and
\* leaves the state store alone.
C19_StateSingleUse == [][StateUse(auth_last'.error # None)]_vars

\* C19: the same, for the callbacks whose error parameter is not empty; an
\* empty error parameter counts as none.
C19_StateSingleUseUnlessErrorEmpty ==
    [][/\ StateUse(Truthy(auth_last'.error))
       /\ (DidAuth("callback") /\ ~Truthy(auth_last'.error)
             /\ ~NotUsable(auth_last'.state)) => auth_last'.response.verified]_vars

\* A callback that presents a consumed state with a code and no error, and
\* gets 400 without a token request.
C19_Witness ==
    /\ auth_last # NotCalled
    /\ auth_last.op = "callback"
    /\ auth_last.error = None
    /\ Truthy(auth_last.code)
    /\ Truthy(auth_last.state)
    /\ auth_last.state.v \in consumed
    /\ auth_last.response = Response(400, "Invalid state parameter", FALSE, FALSE)

(***************************************************************************)
(* Properties of the pagination loop.                                      *)
(***************************************************************************)
\* The answer is a 200 whose body is a batch with something in it.
NonEmptyBatch(response) ==
    /\ response.v.status_code = 200
    /\ response.v.body.kind = "iterable"
    /\ response.v.body.len > 0

\* What one turn of the loop does on the answer it got.
TurnStops ==
    /\ fetch'.requests = fetch.requests + 1
    /\ fetch'.response.v.status_code = 429 =>
           fetch'.returned = Val([status_code |-> 429, error |-> Val("Rate limited"),
                                  activities |-> 0, cached |-> FALSE])
    /\ fetch'.response.v.status_code \notin {200, 429} => fetch'.returned # None
    /\ (fetch'.response.v.status_code = 200 /\ fetch'.response.v.body = Batch(0)) =>
           fetch'.returned # None
    /\ fetch'.activities >= ActivityLimit => fetch'.returned # None
    /\ fetch'.returned = None =>
           NonEmptyBatch(fetch'.response) /\ fetch'.activities < ActivityLimit
    /\ fetch'.page = IF NonEmptyBatch(fetch'.response) THEN fetch.page + 1 ELSE fetch.page
    /\ fetch'.activities =
           IF NonEmptyBatch(fetch'.response)
           THEN fetch.activities + fetch'.response.v.body.len
           ELSE fetch.activities

\* C20: when every page request is answered the loop ends; it ends at the
\* first 429 (with the rate-limited error), at the first other status that
\* is not 200, at the first empty batch, and as soon as 200 activities are
\* gathered; it makes at most 200 page requests; and page goes up by one
\* with every 200 answer that brings a non-empty batch, and with no other.
C20_LoopTerminates ==
    /\ <>(fetch.returned # None)
    /\ [](/\ fetch.requests <= ActivityLimit
          /\ fetch.page = 1 + fetch.extended
          /\ fetch.extended <= fetch.activities
          /\ fetch.requests \in {fetch.extended, fetch.extended + 1})
    /\ [][TurnStops]_vars

\* The longest loop: 200 page requests of one activity each.
C20_Witness ==
    /\ fetch # NotCalled
    /\ fetch.returned # None
    /\ fetch.returned.v.status_code = 200
    /\ fetch.requests = ActivityLimit
    /\ fetch.page = ActivityLimit + 1
    /\ fetch.activities = ActivityLimit

(***************************************************************************)
(* Properties of _format_time.                                             *)
(***************************************************************************)
\* The units of a rendered time: the runs of characters between the colons.
RECURSIVE Units(_)
Units(s) ==
    IF s = <<>> THEN <<<<>>>>
    ELSE LET rest == Units(Tail(s))
         IN  IF Head(s) = ":" THEN <<<<>>>> \o rest
             ELSE <<<<Head(s)>> \o Head(rest)>> \o Tail(rest)

IsDigits(s) == s # <<>> /\ \A i \in 1..Len(s) : s[i] \in {Digit(n) : n \in 0..9}

\* The number a run of digits writes.
RECURSIVE Number(_)
Number(s) ==
    IF s = <<>> THEN 0 ELSE 10 * Number(SubSeq(s, 1, Len(s) - 1)) + DigitValue(s[Len(s)])

\* No zero in front: the digits are those of the number itself.
Unpadded(s) == Len(s) = 1 \/ Head(s) # "0"

\* Exactly two digits that write a number below sixty.
Padded(s) == Len(s) = 2 /\ Number(s) < 60

DidOn(op, k) == Did(op) /\ last'.key = k

\* The well-formed entry is past its expiry for a reader with this max-age.
ExpiredFor(content, max_age_hours, clock) ==
    Expired(clock, CachedAt(content) + max_age_hours * TicksPerHour)

\* C25: a get that returns the payload leaves every file, that of its own
\* key included, as it was; the passing of time removes nothing, and a
\* well-formed entry leaves the store only through a get on its key whose
\* max-age it has outlived, a delete of its key or a clear_all; get, set and
\* delete on one key leave the file of every other key as it was.
C25_ReadsLazyNonRefreshing ==
    [][/\ Did("get") /\ ~last'.outcome.raised /\ last'.outcome.value # None => files' = files
       /\ Did("tick") => files' = files
       /\ \A k \in Keys :
              WellFormed(files[k]) /\ ~Exists(files', k) =>
                  \/ DidOn("get", k) /\ ExpiredFor(files[k], last'.max_age_hours, now)
                  \/ DidOn("delete", k)
                  \/ Did("clear_all")
       /\ \A k \in Keys :
              DidOn("get", k) \/ DidOn("set", k) \/ DidOn("delete", k) =>
                  \A other \in Keys \ {k} : files'[other] = files[other]]_vars

\* A get with a max-age of two hours has just returned the payload of an
\* entry that a one-hour reader would find expired; the entry is still
\* there, next to the entry of the other key.
C25_Witness ==
    /\ last.op = "get"
    /\ last.max_age_hours = 2
    /\ ~last.outcome.raised /\ last.outcome.value # None
    /\ WellFormed(files[last.key])
    /\ ExpiredFor(files[last.key], 1, now)
    /\ \A k \in Keys : Exists(files, k)

(***************************************************************************)
(* Properties of the endpoints.                                            *)
(***************************************************************************)
\* The step is the arrival of a request that passes authentication.
Arrives ==
    /\ Free
    /\ handler' # handler
    /\ handler'.response # Val(NotAuthenticated)

\* The step is Strava's answer, with this status code, to a list request
\* or to a detail request.
Answers(to, status_code) ==
    /\ Pending(to)
    /\ handler' # handler
    /\ handler'.answered = Val([to |-> to, status_code |-> status_code])

\* The entry that set writes for a result at the time clock.
Entry(result_, clock) == JsonFile(JsonObject(JsonString(IsoFormat(clock)), JsonPayload(result_)))

\* The entry is no older than the hours that the endpoint allows: one for
\* the activities, 24 for the best efforts.
WithinMaxAge(endpoint, content, clock) ==
    clock - CachedAt(content)
        <= (IF endpoint = "get_activities" THEN 1 ELSE 24) * TicksPerHour

\* What the endpoint returns for an entry of the cache.
Served(endpoint, content) ==
    IF endpoint = "get_best_efforts"
    THEN [content.doc.data.payload EXCEPT !.cached = TRUE]
    ELSE content.doc.data.payload

\* C21: a request without refresh that finds an entry within its max-age
\* under its key is answered with the entry's value and nothing is asked
\* of Strava; a request with refresh never reads the cache, and when its
\* fetch has completed without a 429 to a list request, the entry of its
\* key is the newly computed result.
C21_CacheAsideWithRefresh ==
    [][LET key == CacheKey(handler'.endpoint)
       IN  /\ Arrives /\ ~handler'.refresh /\ WellFormed(files[key])
              /\ WithinMaxAge(handler'.endpoint, files[key], now) =>
                  /\ handler'.response
                         = Val(Result(Served(handler'.endpoint, files[key])))
                  /\ handler'.upstream = 0
                  /\ files' = files
           /\ Arrives /\ handler'.refresh => ~handler'.cache_read /\ files' = files
           /\ Pending("list") \/ Pending("detail") =>
                  (handler'.refresh => ~handler'.cache_read)
           /\ (Pending("list") \/ Pending("detail")) /\ handler'.response # None
              /\ handler'.refresh /\ handler'.fetched =>
                  /\ handler'.response.v.kind = "result"
                  /\ files'[key] = Entry(handler'.response.v.content, now)]_vars

\* C22: a 429 to a list request, on whichever page, makes the handler
\* return its rate-limited response and leaves every file of the cache as
\* it was: set is not called.
C22_RateLimitNeverWrites ==
    [][Answers("list", 429) =>
          /\ handler'.response = Val(RateLimited)
          /\ ~handler'.set_called
          /\ files' = files]_vars

\* get_activities with refresh has returned its rate-limited response after
\* a 429 to its second page request, and the entry that an earlier request
\* stored is still there.
C22_Witness ==
    /\ handler # NotCalled
    /\ handler.endpoint = "get_activities"
    /\ handler.refresh
    /\ handler.response = Val(RateLimited)
    /\ handler.upstream = 2
    /\ WellFormed(files["activities_1"])
    /\ CachedAt(files["activities_1"]) < now

\* C23: a 429 to a detail request ends get_best_efforts with a result whose
\* records are derived from the lists gathered before it, and that result
\* is written to the cache; from then on every request without refresh
\* that arrives within 24 hours of the write is answered with that result,
\* marked cached, and nothing is asked of Strava.
C23_PartialResultCachedAndServed ==
    [][/\ Answers("detail", 429) =>
             LET derived == CalculatePersonalRecordsFromBestEfforts(handler.all_best_efforts)
             IN  /\ ~derived.raised
                 /\ handler'.response.v.kind = "result"
                 /\ handler'.response.v.content.best_efforts = derived.value
                 /\ ~handler'.response.v.content.cached
                 /\ files'["best_efforts_1"] = Entry(handler'.response.v.content, now)
       /\ Arrives /\ handler'.endpoint = "get_best_efforts" /\ ~handler'.refresh
          /\ (IF handler = NotCalled THEN FALSE ELSE handler.partial)
          /\ WellFormed(files["best_efforts_1"])
          /\ now - CachedAt(files["best_efforts_1"]) <= 24 * TicksPerHour =>
             /\ handler'.response
                    = Val(Result([files["best_efforts_1"].doc.data.payload
                                     EXCEPT !.cached = TRUE]))
             /\ handler'.upstream = 0]_vars

====
